---- MODULE Spec2Model ----
(***************************************************************************)
(* rslox: a bytecode compiler and stack VM for Lox, written in Rust.       *)
(*                                                                         *)
(* The model follows one `interpret(source)` call of one VM, as main.rs    *)
(* drives it for a source file: the compiler front end (token stream,      *)
(* error reporting, panic mode, synchronize) and the VM's dispatch loop    *)
(* (value stack, call frames, open-upvalue list, heap objects, globals).   *)
(* A source is either a token sequence, which the compiler model parses,   *)
(* or the chunk the compiler emits for a Lox program, which the VM model   *)
(* executes byte by byte.                                                  *)
(***************************************************************************)
EXTENDS Integers, Sequences, FiniteSets, TLC

VARIABLES
    source,         \* the input of interpret(): [kind |-> "chunk", name] or [kind |-> "tokens", tokens]
    pc,             \* where main/interpret stands: "start", "compile", "run", "returned", "exited"
    res,            \* what interpret() returned: "none", "Ok", "CompileError", "RuntimeError";
                    \* "panic" (a Rust panic unwinds main) or "hang" (run never returns)
    exit_code,      \* the process exit code, -1 while the process runs
    comp,           \* the Compiler struct (compiler.rs) with the scanner's position
    frames,         \* RunCtx.frames
    stack,          \* RunCtx.stack
    open_upvalues,  \* RunCtx.open_upvalues, front of the list first
    heap,           \* the Rc allocations: natives, closures, upvalue cells, classes, instances, bound methods
    globals,        \* VM.globals
    out,            \* lines written to stdout
    err,            \* lines written to stderr
    born,           \* history: born[i+1] is the serial number of the push that created stack slot i
    stamp,          \* history: number of pushes so far
    called,         \* history: the closure and arg_count of the latest call() and its number
    declared,       \* history: the superclass each Inherit gave a class, the class each
                    \* Method gave a closure to
    scanner,        \* the Scanner struct of a scanner driven on its own (tests::scan)
    scans,          \* the tokens its scan_token calls have returned
    lines_read      \* the lines repl() has read from stdin, 0 under run_file()

vars == <<source, pc, res, exit_code, comp, frames, stack, open_upvalues, heap,
          globals, out, err, born, stamp, called,
          declared, scanner, scans, lines_read>>

(***************************************************************************)
(* Program constants.                                                      *)
(***************************************************************************)
U8_MAX == 255
FRAMES_MAX == U8_MAX
STACK_MAX == U8_MAX

OP_CONSTANT == 0
OP_NIL == 1
OP_TRUE == 2
OP_FALSE == 3
OP_POP == 4
OP_GET_LOCAL == 5
OP_SET_LOCAL == 6
OP_GET_GLOBAL == 7
OP_DEFINE_GLOBAL == 8
OP_SET_GLOBAL == 9
OP_GET_PROPERTY == 10
OP_SET_PROPERTY == 11
OP_GET_UPVALUE == 12
OP_SET_UPVALUE == 13
OP_EQUAL == 14
OP_GREATER == 15
OP_LESS == 16
OP_ADD == 17
OP_SUBTRACT == 18
OP_MULTIPLY == 19
OP_DIVIDE == 20
OP_NEGATE == 21
OP_NOT == 22
OP_PRINT == 23
OP_JUMP == 24
OP_JUMP_IF_FALSE == 25
OP_LOOP == 26
OP_CALL == 27
OP_CLOSURE == 28
OP_CLOSE_UPVALUE == 29
OP_RETURN == 30
OP_CLASS == 31
\* The opcodes that vm.rs and compiler.rs use and the enum of chunk.rs lacks.
OP_INHERIT == 32
OP_METHOD == 33
OP_GET_SUPER == 34
OP_INVOKE == 35
OP_SUPER_INVOKE == 36

(***************************************************************************)
(* Values (value.rs) and heap objects (object/*.rs).                       *)
(* Strings and functions are immutable, so a Value holds them directly;    *)
(* every other object is a heap cell and a Value holds its reference.      *)
(***************************************************************************)
Nil == [t |-> "nil"]
Bool(b) == [t |-> "bool", b |-> b]
Number(n) == [t |-> "num", n |-> n]
Str(s) == [t |-> "string", string |-> s]
Fun(f) == [t |-> "function", function |-> f]
Obj(r) == [t |-> "obj", ref |-> r]

None == [some |-> FALSE]
Some(v) == [some |-> TRUE, v |-> v]

Function(name, arity, upvalue_count, code, constants, lines) ==
    [name |-> name, arity |-> arity, upvalue_count |-> upvalue_count,
     chunk |-> [code |-> code, constants |-> constants, lines |-> lines]]

NativeFunction(f) == [kind |-> "NativeFunction", function |-> f]
Closure(function) == [kind |-> "Closure", function |-> function, upvalues |-> <<>>]
Upvalue(location, var) ==
    [kind |-> "Upvalue", location |-> location, closed |-> None, var |-> var]
\* HashMap<ObjString, _> as a function on the set of its keys.
MapInsert(m, k, v) == [x \in DOMAIN m \cup {k} |-> IF x = k THEN v ELSE m[x]]
EmptyMap == [x \in {} |-> Nil]

Class(name) == [kind |-> "Class", name |-> name, methods |-> EmptyMap]
Instance(class) == [kind |-> "Instance", class |-> class, fields |-> EmptyMap]
BoundMethod(receiver, method) ==
    [kind |-> "BoundMethod", receiver |-> receiver, method |-> method]

(***************************************************************************)
(* RunCtx (vm.rs).  The handlers are operators from context to context: a  *)
(* context is the VM's state during one instruction, with the outcome of   *)
(* the instruction in `fault`: "" (Ok), "RuntimeError" (an Err(LoxError)   *)
(* travelling up through `?`), "panic" (a Rust panic) or "hang" (a loop    *)
(* that never ends).  `done` is run()'s `return Ok(())`.                   *)
(***************************************************************************)
Ctx ==
    [frames |-> frames, stack |-> stack, open_upvalues |-> open_upvalues,
     heap |-> heap, globals |-> globals, out |-> out, err |-> err,
     born |-> born, stamp |-> stamp, called |-> called, declared |-> declared,
     fault |-> "", message |-> "", done |-> FALSE]

panic(c, message) ==
    IF c.fault # "" THEN c ELSE [c EXCEPT !.fault = "panic", !.message = message]

\* A heap allocation (Rc::new): the object and its reference.
alloc(c, object) == [c EXCEPT !.heap = Append(@, object)]
new_ref(c) == Len(c.heap) + 1

\* ArrayVec::push panics when the vector is full.
push(c, value) ==
    IF c.fault # "" THEN c
    ELSE IF Len(c.stack) >= STACK_MAX
         THEN panic(c, "ArrayVec: capacity exceeded in push")
         ELSE [c EXCEPT !.stack = Append(@, value),
                        !.born = Append(@, c.stamp + 1),
                        !.stamp = @ + 1]

truncate(c, len) ==
    IF len >= Len(c.stack) THEN c
    ELSE [c EXCEPT !.stack = SubSeq(@, 1, len), !.born = SubSeq(@, 1, len)]

\* pop() returns the popped value: peek(c, 0) before the pop.
pop(c) ==
    IF c.fault # "" THEN c
    ELSE IF c.stack = <<>>
         THEN panic(c, "called Option::unwrap on a None value")
         ELSE truncate(c, Len(c.stack) - 1)

peek(c, distance) == c.stack[Len(c.stack) - distance]

reset_stack(c) == [c EXCEPT !.stack = <<>>, !.born = <<>>]

current_frame(c) == c.frames[Len(c.frames)]
frame_function(c, frame) == c.heap[frame.closure].function
current_chunk(c) == frame_function(c, current_frame(c)).chunk

read_byte(c) ==
    [c |-> [c EXCEPT !.frames[Len(c.frames)].ip = @ + 1],
     byte |-> current_chunk(c).code[current_frame(c).ip + 1]]

read_short(c) ==
    LET hi == read_byte(c)
        lo == read_byte(hi.c)
    IN [c |-> lo.c, short |-> hi.byte * 256 + lo.byte]

read_constant(c) ==
    LET r == read_byte(c)
    IN [c |-> r.c, value |-> current_chunk(c).constants[r.byte + 1]]

\* Display for Function (object/function.rs).
display_function(function) ==
    IF function.name = "" THEN "<script>" ELSE "<fn " \o function.name \o ">"

\* The trace of runtime_error: frames.iter().rev(), one line each.
RECURSIVE trace_lines(_, _)
trace_lines(c, i) ==
    IF i = 0 THEN <<>>
    ELSE LET frame == c.frames[i]
             line == frame_function(c, frame).chunk.lines[frame.ip]
         IN <<"[line " \o ToString(line) \o "] in "
                \o display_function(frame_function(c, frame))>>
            \o trace_lines(c, i - 1)

runtime_error(c, message) ==
    [reset_stack(c) EXCEPT
        !.err = c.err \o <<message>> \o trace_lines(c, Len(c.frames)),
        !.fault = "RuntimeError",
        !.message = message]

\* call without the comparison of arg_count with the arity.
call_any_arity(c0, closure, arg_count) ==
    LET c == [c0 EXCEPT !.called = [closure |-> closure, arg_count |-> arg_count,
                                    serial |-> @.serial + 1]]
    IN IF Len(c.frames) >= FRAMES_MAX
       THEN runtime_error(c, "Stack overflow.")
       ELSE [c EXCEPT !.frames = Append(@,
                [closure |-> closure, ip |-> 0,
                 slots_base |-> Len(c.stack) - arg_count - 1])]

call(c0, closure, arg_count) ==
    LET c == [c0 EXCEPT !.called = [closure |-> closure, arg_count |-> arg_count,
                                    serial |-> @.serial + 1]]
    IN IF Len(c.frames) >= FRAMES_MAX
       THEN runtime_error(c, "Stack overflow.")
       ELSE IF arg_count # c.heap[closure].function.arity
       THEN runtime_error(c, "Expected " \o ToString(c.heap[closure].function.arity)
                             \o " arguments but got " \o ToString(arg_count) \o ".")
       ELSE [c EXCEPT !.frames = Append(@,
                [closure |-> closure, ip |-> 0,
                 slots_base |-> Len(c.stack) - arg_count - 1])]

\* call_value whose BoundMethod arm leaves the callee's slot as it is.
call_value_keep_slot(c, callee, arg_count, now) ==
    LET slot == Len(c.stack) - arg_count
        obj == c.heap[callee.ref]
    IN IF callee.t # "obj"
       THEN runtime_error(c, "Can only call functions and classes.")
       ELSE IF obj.kind = "BoundMethod"
       THEN call(c, obj.method, arg_count)
       ELSE IF obj.kind = "Class"
       THEN LET c1 == alloc(c, Instance(callee.ref))
                c2 == [c1 EXCEPT !.stack[slot] = Obj(new_ref(c))]
            IN IF "init" \in DOMAIN obj.methods
               THEN call(c2, obj.methods["init"], arg_count)
               ELSE IF arg_count > 0
               THEN runtime_error(c2, "Expected 0 arguments but got "
                                      \o ToString(arg_count) \o ".")
               ELSE c2
       ELSE IF obj.kind = "Closure"
       THEN call(c, callee.ref, arg_count)
       ELSE IF obj.kind = "NativeFunction"
       THEN push(truncate(c, Len(c.stack) - arg_count - 1), Number(now))
       ELSE runtime_error(c, "Can only call functions and classes.")

\* call_value; `now` is what the clock native reads from the system clock.
call_value(c, callee, arg_count, now) ==
    LET slot == Len(c.stack) - arg_count  \* stack[len - arg_count - 1], 1-based
        obj == c.heap[callee.ref]
    IN IF callee.t # "obj"
       THEN runtime_error(c, "Can only call functions and classes.")
       ELSE IF obj.kind = "BoundMethod"
       THEN call([c EXCEPT !.stack[slot] = obj.receiver], obj.method, arg_count)
       ELSE IF obj.kind = "Class"
       THEN LET c1 == alloc(c, Instance(callee.ref))
                c2 == [c1 EXCEPT !.stack[slot] = Obj(new_ref(c))]
            IN IF "init" \in DOMAIN obj.methods
               THEN call(c2, obj.methods["init"], arg_count)
               ELSE IF arg_count > 0
               THEN runtime_error(c2, "Expected 0 arguments but got "
                                      \o ToString(arg_count) \o ".")
               ELSE c2
       ELSE IF obj.kind = "Closure"
       THEN call(c, callee.ref, arg_count)
       ELSE IF obj.kind = "NativeFunction"
       THEN push(truncate(c, Len(c.stack) - arg_count - 1), Number(now))
       ELSE runtime_error(c, "Can only call functions and classes.")

(***************************************************************************)
(* Upvalues.                                                               *)
(***************************************************************************)
\* cursor.peek_next() in capture_upvalue: the cursor is never moved off the
\* front of the list, so the next element is always the second one (0: None).
peek_next(c) == IF Len(c.open_upvalues) >= 2 THEN 2 ELSE 0

\* The while loop of capture_upvalue.  `next` is the position in the list of
\* the upvalue under test (0: None).  The loop's only state is `next`, so an
\* iteration that leaves it unchanged repeats for ever.
RECURSIVE capture_search(_, _, _)
capture_search(c, stack_offset, next) ==
    IF next = 0 THEN [found |-> 0, hang |-> FALSE]
    ELSE LET upvalue == c.heap[c.open_upvalues[next]]
         IN IF upvalue.location = stack_offset
            THEN [found |-> next, hang |-> FALSE]
            ELSE IF upvalue.location < stack_offset
            THEN [found |-> 0, hang |-> FALSE]
            ELSE IF peek_next(c) = next
            THEN [found |-> 0, hang |-> TRUE]
            ELSE capture_search(c, stack_offset, peek_next(c))

\* cursor.insert_after(created) with the cursor at the front of the list, or
\* at the ghost element of an empty list.
insert_after(list, created) ==
    IF list = <<>> THEN <<created>> ELSE <<Head(list), created>> \o Tail(list)

\* capture_upvalue: the context and the upvalue cell returned.
capture_upvalue(c, stack_offset) ==
    LET s == capture_search(c, stack_offset,
                            IF c.open_upvalues = <<>> THEN 0 ELSE 1)
        var == IF stack_offset < Len(c.born) THEN c.born[stack_offset + 1] ELSE 0
    IN IF s.hang THEN [c |-> [c EXCEPT !.fault = "hang"], upvalue |-> 0]
       ELSE IF s.found # 0 THEN [c |-> c, upvalue |-> c.open_upvalues[s.found]]
       ELSE [c |-> [alloc(c, Upvalue(stack_offset, var)) EXCEPT
                       !.open_upvalues = insert_after(@, new_ref(c))],
             upvalue |-> new_ref(c)]

RECURSIVE close_upvalues(_, _)
close_upvalues(c, last_location) ==
    IF c.open_upvalues = <<>> THEN c
    ELSE LET ref == Head(c.open_upvalues)
             location == c.heap[ref].location
         IN IF location < last_location THEN c
            ELSE IF location >= Len(c.stack)
            THEN panic(c, "index out of bounds")
            ELSE close_upvalues(
                    [c EXCEPT !.heap[ref].closed = Some(c.stack[location + 1]),
                              !.open_upvalues = Tail(@)],
                    last_location)

\* bind_method that pushes the bound method above the receiver.
bind_method_keep_receiver(c, class, name) ==
    IF name \in DOMAIN c.heap[class].methods
    THEN LET bound == BoundMethod(peek(c, 0), c.heap[class].methods[name])
         IN push(alloc(c, bound), Obj(new_ref(c)))
    ELSE runtime_error(c, "Undefined property '" \o name \o "'.")

bind_method(c, class, name) ==
    IF name \in DOMAIN c.heap[class].methods
    THEN LET bound == BoundMethod(peek(c, 0), c.heap[class].methods[name])
         IN push(pop(alloc(c, bound)), Obj(new_ref(c)))
    ELSE runtime_error(c, "Undefined property '" \o name \o "'.")

(***************************************************************************)
(* Value equality and display.                                             *)
(***************************************************************************)
\* PartialEq for Value and for dyn Obj: every object kind is compared field
\* by field (the derived PartialEq of Closure, Upvalue, Class, Instance and
\* BoundMethod), through the Rc and RefCell pointers.
RECURSIVE value_eq(_, _, _)
RECURSIVE obj_eq(_, _, _)
option_eq(h, a, b) ==
    /\ a.some = b.some
    /\ a.some => value_eq(h, a.v, b.v)

\* HashMap == HashMap: the same keys with equal values.
fields_eq(h, m1, m2) ==
    /\ DOMAIN m1 = DOMAIN m2
    /\ \A k \in DOMAIN m1 : value_eq(h, m1[k], m2[k])

methods_eq(h, m1, m2) ==
    /\ DOMAIN m1 = DOMAIN m2
    /\ \A k \in DOMAIN m1 : obj_eq(h, m1[k], m2[k])

obj_eq(h, r1, r2) ==
    LET a == h[r1]
        b == h[r2]
    IN IF a.kind # b.kind THEN FALSE
       ELSE IF a.kind = "NativeFunction" THEN a.function = b.function
       ELSE IF a.kind = "Closure"
       THEN /\ a.function = b.function
            /\ Len(a.upvalues) = Len(b.upvalues)
            /\ \A i \in 1..Len(a.upvalues) : obj_eq(h, a.upvalues[i], b.upvalues[i])
       ELSE IF a.kind = "Upvalue"
       THEN a.location = b.location /\ option_eq(h, a.closed, b.closed)
       ELSE IF a.kind = "Class"
       THEN a.name = b.name /\ methods_eq(h, a.methods, b.methods)
       ELSE IF a.kind = "Instance"
       THEN obj_eq(h, a.class, b.class) /\ fields_eq(h, a.fields, b.fields)
       ELSE value_eq(h, a.receiver, b.receiver) /\ obj_eq(h, a.method, b.method)

value_eq(h, a, b) ==
    IF a.t # b.t THEN FALSE
    ELSE IF a.t = "obj" THEN obj_eq(h, a.ref, b.ref)
    ELSE a = b

\* Display for f64: an integer, a half, an infinity or NaN.
display_f64(value) ==
    CASE "n" \in DOMAIN value -> ToString(value.n)
      [] "n" \notin DOMAIN value /\ value.den = 0 ->
            (IF value.num = 0 THEN "NaN" ELSE IF value.num > 0 THEN "inf" ELSE "-inf")
      [] "n" \notin DOMAIN value /\ value.den = 2 ->
            (IF value.num < 0 THEN "-" ELSE "")
            \o ToString((IF value.num < 0 THEN 0 - value.num ELSE value.num) \div 2)
            \o ".5"

\* Display for Value and for dyn Obj.
display(h, value) ==
    IF value.t = "nil" THEN "nil"
    ELSE IF value.t = "bool" THEN (IF value.b THEN "true" ELSE "false")
    ELSE IF value.t = "num" THEN display_f64(value)
    ELSE IF value.t = "string" THEN "\"" \o value.string \o "\""
    ELSE IF value.t = "function" THEN display_function(value.function)
    ELSE LET o == h[value.ref]
         IN IF o.kind = "NativeFunction" THEN "<native fn>"
            ELSE IF o.kind = "Closure" THEN display_function(o.function)
            ELSE IF o.kind = "Class" THEN o.name
            ELSE IF o.kind = "Instance" THEN h[o.class].name \o " instance"
            ELSE display_function(h[o.method].function)

(***************************************************************************)
(* The arms of VM::run's match, each on the context left by the fetch of   *)
(* the opcode byte.                                                        *)
(***************************************************************************)
\* as_objstring(..).unwrap() on a constant.
unwrap_objstring(c, value) ==
    IF value.t = "string" THEN c
    ELSE panic(c, "called Option::unwrap on a None value")

op_constant(c) ==
    LET r == read_constant(c) IN push(r.c, r.value)

op_pop(c) == pop(c)

\* GetLocal that counts the slot from the bottom of the stack.
op_get_local_absolute(c) ==
    LET r == read_byte(c)
    IN push(r.c, r.c.stack[r.byte + 1])

op_get_local(c) ==
    LET r == read_byte(c)
    IN push(r.c, r.c.stack[current_frame(r.c).slots_base + r.byte + 1])

op_set_local(c) ==
    LET r == read_byte(c)
    IN [r.c EXCEPT !.stack[current_frame(r.c).slots_base + r.byte + 1] = peek(r.c, 0)]

op_get_global(c) ==
    LET r == read_constant(c)
        name == r.value.string
        value == IF name \in DOMAIN r.c.globals THEN r.c.globals[name] ELSE Nil
    IN push(unwrap_objstring(r.c, r.value), value)

op_define_global(c) ==
    LET r == read_constant(c)
        c1 == unwrap_objstring(r.c, r.value)
    IN IF c1.fault # "" THEN c1
       ELSE pop([c1 EXCEPT !.globals = MapInsert(@, r.value.string, peek(c1, 0))])

\* SetGlobal that inserts the name whether or not it is defined.
op_set_global_insert(c) ==
    LET r == read_constant(c)
        c1 == unwrap_objstring(r.c, r.value)
    IN IF c1.fault # "" THEN c1
       ELSE [c1 EXCEPT !.globals = MapInsert(@, r.value.string, peek(c1, 0))]

op_set_global(c) ==
    LET r == read_constant(c)
        c1 == unwrap_objstring(r.c, r.value)
        name == r.value.string
    IN IF c1.fault # "" THEN c1
       ELSE IF name \in DOMAIN c1.globals
       THEN [c1 EXCEPT !.globals = MapInsert(@, name, peek(c1, 0))]
       ELSE runtime_error(c1, "Undefined variable '" \o name \o "'.")

is_instance(c, value) == value.t = "obj" /\ c.heap[value.ref].kind = "Instance"

\* The GetProperty arm once the name has been read.
get_property(c, name) ==
    LET instance == c.heap[peek(c, 0).ref]
    IN IF ~is_instance(c, peek(c, 0))
       THEN runtime_error(c, "Only instances have properties.")
       ELSE IF name \in DOMAIN instance.fields
       THEN push(pop(c), instance.fields[name])
       ELSE bind_method(c, instance.class, name)

op_get_property(c) ==
    LET r == read_constant(c)
        c1 == unwrap_objstring(r.c, r.value)
    IN IF c1.fault # "" THEN c1
       ELSE get_property(c1, r.value.string)

op_set_property(c) ==
    LET r == read_constant(c)
        c1 == unwrap_objstring(r.c, r.value)
        name == r.value.string
        value == peek(c1, 0)
        obj == peek(c1, 1)
        c2 == pop(pop(c1))
    IN IF c1.fault # "" THEN c1
       ELSE IF ~is_instance(c1, obj)
       THEN runtime_error(c2, "Only instances have fields.")
       ELSE push([c2 EXCEPT !.heap[obj.ref].fields = MapInsert(@, name, value)],
                 value)

frame_upvalue(c, slot) == c.heap[current_frame(c).closure].upvalues[slot + 1]

op_get_upvalue(c) ==
    LET r == read_byte(c)
        upvalue == r.c.heap[frame_upvalue(r.c, r.byte)]
    IN IF upvalue.closed.some THEN push(r.c, upvalue.closed.v)
       ELSE IF upvalue.location >= Len(r.c.stack)
       THEN panic(r.c, "index out of bounds")
       ELSE push(r.c, r.c.stack[upvalue.location + 1])

op_set_upvalue(c) ==
    LET r == read_byte(c)
        value == peek(r.c, 0)
        ref == frame_upvalue(r.c, r.byte)
        upvalue == r.c.heap[ref]
    IN IF upvalue.closed.some
       THEN [r.c EXCEPT !.heap[ref].closed = Some(value)]
       ELSE IF upvalue.location >= Len(r.c.stack)
       THEN panic(r.c, "index out of bounds")
       ELSE [r.c EXCEPT !.stack[upvalue.location + 1] = value]

op_equal(c) ==
    LET b == peek(c, 0)
        a == peek(c, 1)
    IN push(pop(pop(c)), Bool(value_eq(c.heap, a, b)))

op_add(c) ==
    LET b == peek(c, 0)
        a == peek(c, 1)
        c1 == pop(pop(c))
    IN IF a.t = "num" /\ b.t = "num" THEN push(c1, Number(a.n + b.n))
       ELSE IF a.t = "string" /\ b.t = "string"
       THEN push(c1, Str(a.string \o b.string))
       ELSE runtime_error(c1, "Operands must be two numbers or two strings.")

\* f64 division.  Numbers are integers here; a quotient that is no integer
\* (a fraction, an infinity or NaN) is kept as its two operands.  The
\* programs print a quotient and do not compute with it.
Quotient(a, b) == [t |-> "num", num |-> a, den |-> b]

\* The closures run() passes to binary_op_num: |a, b| a - b, a * b, a / b.
num_op(op, a, b) ==
    CASE op = "-" -> Number(a - b)
      [] op = "*" -> Number(a * b)
      [] op = "/" -> IF b # 0 /\ a % b = 0 THEN Number(a \div b) ELSE Quotient(a, b)

\* The closures run() passes to binary_op_compare: |a, b| a > b, a < b.
compare_op(op, a, b) ==
    CASE op = ">" -> Bool(a > b)
      [] op = "<" -> Bool(a < b)

binary_op_num(c, op) ==
    LET b == peek(c, 0)
        a == peek(c, 1)
        c1 == pop(pop(c))
    IN IF a.t = "num" /\ b.t = "num" THEN push(c1, num_op(op, a.n, b.n))
       ELSE runtime_error(c1, "Operands must be numbers.")

binary_op_compare(c, op) ==
    LET b == peek(c, 0)
        a == peek(c, 1)
        c1 == pop(pop(c))
    IN IF a.t = "num" /\ b.t = "num" THEN push(c1, compare_op(op, a.n, b.n))
       ELSE runtime_error(c1, "Operands must be numbers.")

op_negate(c) ==
    LET value == peek(c, 0)
    IN IF value.t = "num" THEN push(pop(c), Number(value.n * (-1)))
       ELSE runtime_error(pop(c), "Operand must be a number.")

op_not(c) ==
    LET value == peek(c, 0)
    IN IF value.t = "bool" THEN push(pop(c), Bool(~value.b))
       ELSE IF value.t = "nil" THEN push(pop(c), Bool(TRUE))
       ELSE push(pop(c), Bool(FALSE))

op_print(c) ==
    [pop(c) EXCEPT !.out = Append(@, display(c.heap, peek(c, 0)))]

is_falsey(value) ==
    \/ value.t = "nil"
    \/ value.t = "bool" /\ ~value.b

op_jump(c) ==
    LET offset == read_short(c)
    IN [offset.c EXCEPT !.frames[Len(offset.c.frames)].ip = @ + offset.short]

op_jump_if_false(c) ==
    LET offset == read_short(c)
    IN IF is_falsey(peek(offset.c, 0))
       THEN [offset.c EXCEPT !.frames[Len(offset.c.frames)].ip = @ + offset.short]
       ELSE offset.c

\* ip -= offset, a subtraction of usize: it overflows when offset > ip.
op_loop(c) ==
    LET offset == read_short(c)
    IN IF offset.short > current_frame(offset.c).ip
       THEN panic(offset.c, "attempt to subtract with overflow")
       ELSE [offset.c EXCEPT !.frames[Len(offset.c.frames)].ip = @ - offset.short]

op_call(c, now) ==
    LET r == read_byte(c)
    IN call_value(r.c, peek(r.c, r.byte), r.byte, now)

\* The loop of the Closure arm over the function's upvalue_count pairs
\* (is_local, index); `upvalues` is closure.upvalues so far.
RECURSIVE closure_upvalues(_, _, _)
closure_upvalues(c, count, upvalues) ==
    IF count = 0 \/ c.fault # "" THEN [c |-> c, upvalues |-> upvalues]
    ELSE LET is_local == read_byte(c)
             index == read_byte(is_local.c)
             c1 == index.c
         IN IF is_local.byte = 1
            THEN LET cap == capture_upvalue(
                               c1, current_frame(c1).slots_base + index.byte)
                 IN closure_upvalues(cap.c, count - 1, Append(upvalues, cap.upvalue))
            ELSE closure_upvalues(c1, count - 1,
                    Append(upvalues, frame_upvalue(c1, index.byte)))

op_closure(c) ==
    LET r == read_constant(c)
        function == r.value.function
        u == closure_upvalues(r.c, function.upvalue_count, <<>>)
    IN IF r.value.t # "function"
       THEN runtime_error(r.c, "internal error: expected function")
       ELSE IF u.c.fault # "" THEN u.c
       ELSE push(alloc(u.c, [Closure(function) EXCEPT !.upvalues = u.upvalues]),
                 Obj(new_ref(u.c)))

op_close_upvalue(c) == pop(close_upvalues(c, Len(c.stack) - 1))

op_return(c) ==
    LET result == peek(c, 0)
        current_frame_base == current_frame(c).slots_base
        c1 == close_upvalues(pop(c), current_frame_base)
        c2 == [c1 EXCEPT !.frames = SubSeq(@, 1, Len(@) - 1)]
    IN IF c1.fault # "" THEN c1
       ELSE IF c2.frames = <<>> THEN [c2 EXCEPT !.done = TRUE]
       ELSE push(truncate(c2, current_frame_base), result)

op_class(c) ==
    LET r == read_constant(c)
        c1 == unwrap_objstring(r.c, r.value)
    IN IF c1.fault # "" THEN c1
       ELSE push(alloc(c1, Class(r.value.string)), Obj(new_ref(c1)))

\* as_class(..): Some for a Class object.
is_class(c, value) == value.t = "obj" /\ c.heap[value.ref].kind = "Class"

\* `if let Value::Obj(_)`: strings and functions are objects too.
is_obj(value) == value.t \in {"obj", "string", "function"}

define_method(c, name) ==
    LET class == peek(c, 1)
        method == peek(c, 0)
    IN IF ~is_obj(class) THEN runtime_error(c, "Only classes have methods.")
       ELSE IF ~is_class(c, class)
       THEN runtime_error(c, "internal error: Expected a class.")
       ELSE IF method.t # "obj" \/ c.heap[method.ref].kind # "Closure"
       THEN runtime_error(c, "internal error: Expected a function.")
       ELSE pop([c EXCEPT !.heap[class.ref].methods = MapInsert(@, name, method.ref),
                          !.declared.method_of = MapInsert(@, method.ref, class.ref)])

invoke_from_class(c, class, name, arg_count) ==
    IF name \in DOMAIN c.heap[class].methods
    THEN call(c, c.heap[class].methods[name], arg_count)
    ELSE runtime_error(c, "Undefined property '" \o name \o "'.")

\* invoke that calls the field without storing it in the receiver's slot.
invoke_keep_receiver(c, name, arg_count, now) ==
    LET receiver == peek(c, arg_count)
        instance == c.heap[receiver.ref]
    IN IF ~is_instance(c, receiver)
       THEN runtime_error(c, "Only instances have methods/properties.")
       ELSE IF name \in DOMAIN instance.fields
       THEN call_value(c, instance.fields[name], arg_count, now)
       ELSE invoke_from_class(c, instance.class, name, arg_count)

invoke(c, name, arg_count, now) ==
    LET receiver == peek(c, arg_count)
        instance == c.heap[receiver.ref]
        stack_offset == Len(c.stack) - arg_count  \* 1-based
    IN IF ~is_instance(c, receiver)
       THEN runtime_error(c, "Only instances have methods/properties.")
       ELSE IF name \in DOMAIN instance.fields
       THEN call_value([c EXCEPT !.stack[stack_offset] = instance.fields[name]],
                       instance.fields[name], arg_count, now)
       ELSE invoke_from_class(c, instance.class, name, arg_count)

op_invoke(c, now) ==
    LET method_constant == read_constant(c)
        c1 == unwrap_objstring(method_constant.c, method_constant.value)
        arg_count == read_byte(c1)
    IN IF c1.fault # "" THEN c1
       ELSE invoke(arg_count.c, method_constant.value.string, arg_count.byte, now)

op_super_invoke(c) ==
    LET method_constant == read_constant(c)
        c1 == unwrap_objstring(method_constant.c, method_constant.value)
        arg_count == read_byte(c1)
        superclass_value == peek(arg_count.c, 0)
        c2 == pop(arg_count.c)
    IN IF c1.fault # "" THEN c1
       ELSE IF ~is_class(c2, superclass_value)
       THEN panic(c2, "called Option::unwrap on a None value")
       ELSE invoke_from_class(c2, superclass_value.ref, method_constant.value.string,
                              arg_count.byte)

op_get_super(c) ==
    LET r == read_constant(c)
        c1 == unwrap_objstring(r.c, r.value)
        superclass_value == peek(c1, 0)
        c2 == pop(c1)
    IN IF c1.fault # "" THEN c1
       ELSE IF ~is_class(c2, superclass_value)
       THEN panic(c2, "called Option::unwrap on a None value")
       ELSE bind_method(c2, superclass_value.ref, r.value.string)

\* Inherit that copies no method.
op_inherit_no_copy(c) ==
    LET superclass == peek(c, 1)
        subclass == peek(c, 0)
    IN IF ~is_class(c, superclass) THEN runtime_error(c, "Superclass must be a class.")
       ELSE IF ~is_class(c, subclass)
       THEN panic(c, "called Option::unwrap on a None value")
       ELSE pop([c EXCEPT !.declared.superclass =
                                MapInsert(@, subclass.ref, superclass.ref)])

\* Inherit: every method of the superclass is inserted into the subclass.
op_inherit(c) ==
    LET superclass == peek(c, 1)
        subclass == peek(c, 0)
        methods == c.heap[superclass.ref].methods
    IN IF ~is_class(c, superclass) THEN runtime_error(c, "Superclass must be a class.")
       ELSE IF ~is_class(c, subclass)
       THEN panic(c, "called Option::unwrap on a None value")
       ELSE pop([c EXCEPT !.heap[subclass.ref].methods =
                    [x \in DOMAIN @ \cup DOMAIN methods |->
                        IF x \in DOMAIN methods THEN methods[x] ELSE @[x]],
                          !.declared.superclass =
                                MapInsert(@, subclass.ref, superclass.ref)])

op_method(c) ==
    LET name_constant == read_constant(c)
        c1 == unwrap_objstring(name_constant.c, name_constant.value)
    IN IF c1.fault # "" THEN c1
       ELSE define_method(c1, name_constant.value.string)

(***************************************************************************)
(* Sources.  A "chunk" source is a Lox program given by the Function that  *)
(* compile() returns for it; the program text is in the comment above the  *)
(* chunk.  `n` is a number literal of the program.                         *)
(***************************************************************************)
MaxNum == 2

Rep(count, line) == [i \in 1..count |-> line]

\* fun fa() { return a; }   fun getb() { return b; }      (one upvalue)
FnGetter(name, line) ==
    Function(name, 0, 1, <<OP_GET_UPVALUE, 0, OP_RETURN, OP_NIL, OP_RETURN>>,
             <<>>, Rep(5, line))

\* fun setb() { b = n; }
FnSetB(n) ==
    Function("setb", 0, 1,
             <<OP_CONSTANT, 0, OP_SET_UPVALUE, 0, OP_POP, OP_NIL, OP_RETURN>>,
             <<Number(n)>>, Rep(7, 5))

\*  2: fun outer() {
\*  3:   var a = 1; var b = 2;
\*  4:   fun fa() { return a; }         (only when with_fa)
\*  5:   fun setb() { b = n; }
\*  6:   fun getb() { return b; }
\*  7:   gset = setb; gget = getb;
\*  8: }
FnOuter(with_fa, n) ==
    IF with_fa
    THEN Function("outer", 0, 0,
            <<OP_CONSTANT, 0, OP_CONSTANT, 1,
              OP_CLOSURE, 2, 1, 1, OP_CLOSURE, 3, 1, 2, OP_CLOSURE, 4, 1, 2,
              OP_GET_LOCAL, 4, OP_SET_GLOBAL, 5, OP_POP,
              OP_GET_LOCAL, 5, OP_SET_GLOBAL, 6, OP_POP,
              OP_NIL, OP_RETURN>>,
            <<Number(1), Number(2), Fun(FnGetter("fa", 4)), Fun(FnSetB(n)),
              Fun(FnGetter("getb", 6)), Str("gset"), Str("gget")>>,
            Rep(4, 3) \o Rep(4, 4) \o Rep(4, 5) \o Rep(4, 6) \o Rep(10, 7) \o Rep(2, 8))
    ELSE Function("outer", 0, 0,
            <<OP_CONSTANT, 0, OP_CONSTANT, 1,
              OP_CLOSURE, 2, 1, 2, OP_CLOSURE, 3, 1, 2,
              OP_GET_LOCAL, 3, OP_SET_GLOBAL, 4, OP_POP,
              OP_GET_LOCAL, 4, OP_SET_GLOBAL, 5, OP_POP,
              OP_NIL, OP_RETURN>>,
            <<Number(1), Number(2), Fun(FnSetB(n)),
              Fun(FnGetter("getb", 6)), Str("gset"), Str("gget")>>,
            Rep(4, 3) \o Rep(4, 5) \o Rep(4, 6) \o Rep(10, 7) \o Rep(2, 8))

\*  1: var gset; var gget;
\*  2..8: fun outer() { ... }
\*  9: outer(); gset(); print gget();
ChunkShare(with_fa, n) ==
    Function("", 0, 0,
        <<OP_NIL, OP_DEFINE_GLOBAL, 0, OP_NIL, OP_DEFINE_GLOBAL, 1,
          OP_CLOSURE, 3, OP_DEFINE_GLOBAL, 2,
          OP_GET_GLOBAL, 4, OP_CALL, 0, OP_POP,
          OP_GET_GLOBAL, 5, OP_CALL, 0, OP_POP,
          OP_GET_GLOBAL, 6, OP_CALL, 0, OP_PRINT,
          OP_NIL, OP_RETURN>>,
        <<Str("gset"), Str("gget"), Str("outer"), Fun(FnOuter(with_fa, n)),
          Str("outer"), Str("gset"), Str("gget")>>,
        Rep(6, 1) \o Rep(4, 8) \o Rep(17, 9))

\*  1: fun a() { b(); }
\*  2: fun b() { 1 + "x"; }
\*  3: a();
\*  4: print "after";
ChunkErrorTrace ==
    Function("", 0, 0,
        <<OP_CLOSURE, 1, OP_DEFINE_GLOBAL, 0, OP_CLOSURE, 3, OP_DEFINE_GLOBAL, 2,
          OP_GET_GLOBAL, 4, OP_CALL, 0, OP_POP,
          OP_CONSTANT, 5, OP_PRINT, OP_NIL, OP_RETURN>>,
        <<Str("a"),
          Fun(Function("a", 0, 0,
                <<OP_GET_GLOBAL, 0, OP_CALL, 0, OP_POP, OP_NIL, OP_RETURN>>,
                <<Str("b")>>, Rep(7, 1))),
          Str("b"),
          Fun(Function("b", 0, 0,
                <<OP_CONSTANT, 0, OP_CONSTANT, 1, OP_ADD, OP_POP, OP_NIL, OP_RETURN>>,
                <<Number(1), Str("x")>>, Rep(8, 2))),
          Str("a"), Str("after")>>,
        Rep(4, 1) \o Rep(4, 2) \o Rep(5, 3) \o Rep(5, 4))

\*  1: fun f() { f(); } f();
ChunkRecursion ==
    Function("", 0, 0,
        <<OP_CLOSURE, 1, OP_DEFINE_GLOBAL, 0, OP_GET_GLOBAL, 2, OP_CALL, 0, OP_POP,
          OP_NIL, OP_RETURN>>,
        <<Str("f"),
          Fun(Function("f", 0, 0,
                <<OP_GET_GLOBAL, 0, OP_CALL, 0, OP_POP, OP_NIL, OP_RETURN>>,
                <<Str("f")>>, Rep(7, 1))),
          Str("f")>>,
        Rep(11, 1))

\*  1: print x;
\*  2: print n;
ChunkUndefinedGet(n) ==
    Function("", 0, 0,
        <<OP_GET_GLOBAL, 0, OP_PRINT, OP_CONSTANT, 1, OP_PRINT, OP_NIL, OP_RETURN>>,
        <<Str("x"), Number(n)>>, Rep(3, 1) \o Rep(5, 2))

\*  1: x = n;
\*  2: print 2;
ChunkUndefinedSet(n) ==
    Function("", 0, 0,
        <<OP_CONSTANT, 1, OP_SET_GLOBAL, 0, OP_POP, OP_CONSTANT, 2, OP_PRINT,
          OP_NIL, OP_RETURN>>,
        <<Str("x"), Number(n), Number(2)>>, Rep(5, 1) \o Rep(5, 2))

\*  1: var x = 1; x = n; print x;
ChunkDefinedSet(n) ==
    Function("", 0, 0,
        <<OP_CONSTANT, 1, OP_DEFINE_GLOBAL, 0, OP_CONSTANT, 3, OP_SET_GLOBAL, 2, OP_POP,
          OP_GET_GLOBAL, 4, OP_PRINT, OP_NIL, OP_RETURN>>,
        <<Str("x"), Number(1), Str("x"), Number(n), Str("x")>>, Rep(14, 1))

\*  1: class A {}
\*  2: var a = A(); var b = A();
\*  3: print a == b;
\*  4: a.x = n; b.x = n;
\*  5: print a == b;
\*  6: print a == a;
\*  7: print a.x;
ChunkEqualInstances(n) ==
    Function("", 0, 0,
        <<OP_CLASS, 0, OP_DEFINE_GLOBAL, 0, OP_GET_GLOBAL, 1, OP_POP,
          OP_GET_GLOBAL, 3, OP_CALL, 0, OP_DEFINE_GLOBAL, 2,
          OP_GET_GLOBAL, 5, OP_CALL, 0, OP_DEFINE_GLOBAL, 4,
          OP_GET_GLOBAL, 6, OP_GET_GLOBAL, 7, OP_EQUAL, OP_PRINT,
          OP_GET_GLOBAL, 8, OP_CONSTANT, 10, OP_SET_PROPERTY, 9, OP_POP,
          OP_GET_GLOBAL, 11, OP_CONSTANT, 13, OP_SET_PROPERTY, 12, OP_POP,
          OP_GET_GLOBAL, 14, OP_GET_GLOBAL, 15, OP_EQUAL, OP_PRINT,
          OP_GET_GLOBAL, 16, OP_GET_GLOBAL, 17, OP_EQUAL, OP_PRINT,
          OP_GET_GLOBAL, 18, OP_GET_PROPERTY, 19, OP_PRINT,
          OP_NIL, OP_RETURN>>,
        <<Str("A"), Str("A"), Str("a"), Str("A"), Str("b"), Str("A"),
          Str("a"), Str("b"),
          Str("a"), Str("x"), Number(n), Str("b"), Str("x"), Number(n),
          Str("a"), Str("b"), Str("a"), Str("a"), Str("a"), Str("x")>>,
        Rep(7, 1) \o Rep(12, 2) \o Rep(6, 3) \o Rep(14, 4) \o Rep(6, 5)
            \o Rep(6, 6) \o Rep(7, 7))

\*  1: fun mk() { fun f() {} return f; }
\*  2: print mk() == mk();
ChunkEqualClosures ==
    Function("", 0, 0,
        <<OP_CLOSURE, 1, OP_DEFINE_GLOBAL, 0,
          OP_GET_GLOBAL, 2, OP_CALL, 0, OP_GET_GLOBAL, 3, OP_CALL, 0,
          OP_EQUAL, OP_PRINT, OP_NIL, OP_RETURN>>,
        <<Str("mk"),
          Fun(Function("mk", 0, 0,
                <<OP_CLOSURE, 0, OP_GET_LOCAL, 1, OP_RETURN, OP_NIL, OP_RETURN>>,
                <<Fun(Function("f", 0, 0, <<OP_NIL, OP_RETURN>>, <<>>, Rep(2, 1)))>>,
                Rep(7, 1))),
          Str("mk"), Str("mk")>>,
        Rep(4, 1) \o Rep(12, 2))

\*  1: class A {}
\*  2: var X = A;
\*  3: class A {}
\*  4: print X == A;
ChunkEqualClasses ==
    Function("", 0, 0,
        <<OP_CLASS, 0, OP_DEFINE_GLOBAL, 0, OP_GET_GLOBAL, 1, OP_POP,
          OP_GET_GLOBAL, 3, OP_DEFINE_GLOBAL, 2,
          OP_CLASS, 4, OP_DEFINE_GLOBAL, 4, OP_GET_GLOBAL, 5, OP_POP,
          OP_GET_GLOBAL, 6, OP_GET_GLOBAL, 7, OP_EQUAL, OP_PRINT,
          OP_NIL, OP_RETURN>>,
        <<Str("A"), Str("A"), Str("X"), Str("A"), Str("A"), Str("A"),
          Str("X"), Str("A")>>,
        Rep(7, 1) \o Rep(4, 2) \o Rep(7, 3) \o Rep(8, 4))

\*  1: print "ab" == "a" + "b";
\*  2: print "ab" == "ac";
\*  3: print n == 1;
\*  4: print nil == false;
\*  5: print true == true;
\*  6: print clock() == n;
ChunkEqualValues(n) ==
    Function("", 0, 0,
        <<OP_CONSTANT, 0, OP_CONSTANT, 1, OP_CONSTANT, 2, OP_ADD, OP_EQUAL, OP_PRINT,
          OP_CONSTANT, 3, OP_CONSTANT, 4, OP_EQUAL, OP_PRINT,
          OP_CONSTANT, 5, OP_CONSTANT, 6, OP_EQUAL, OP_PRINT,
          OP_NIL, OP_FALSE, OP_EQUAL, OP_PRINT,
          OP_TRUE, OP_TRUE, OP_EQUAL, OP_PRINT,
          OP_GET_GLOBAL, 7, OP_CALL, 0, OP_CONSTANT, 8, OP_EQUAL, OP_PRINT,
          OP_NIL, OP_RETURN>>,
        <<Str("ab"), Str("a"), Str("b"), Str("ab"), Str("ac"),
          Number(n), Number(1), Str("clock"), Number(n)>>,
        Rep(9, 1) \o Rep(6, 2) \o Rep(6, 3) \o Rep(4, 4) \o Rep(4, 5) \o Rep(10, 6))

\*  1: var gf;
\*  2: {
\*  3:   var a = 1;
\*  4:   fun f() { return a; }
\*  5:   a = n;
\*  6:   gf = f;
\*  7: }
\*  8: print gf();
ChunkBlockClosure(n) ==
    Function("", 0, 0,
        <<OP_NIL, OP_DEFINE_GLOBAL, 0,
          OP_CONSTANT, 1, OP_CLOSURE, 2, 1, 1,
          OP_CONSTANT, 3, OP_SET_LOCAL, 1, OP_POP,
          OP_GET_LOCAL, 2, OP_SET_GLOBAL, 4, OP_POP,
          OP_POP, OP_CLOSE_UPVALUE,
          OP_GET_GLOBAL, 5, OP_CALL, 0, OP_PRINT,
          OP_NIL, OP_RETURN>>,
        <<Str("gf"), Number(1), Fun(FnGetter("f", 4)), Number(n), Str("gf"),
          Str("gf")>>,
        Rep(3, 1) \o Rep(2, 3) \o Rep(4, 4) \o Rep(5, 5) \o Rep(5, 6) \o Rep(2, 7)
            \o Rep(7, 8))

ChunkNames ==
    {"share", "share_after_capture", "error_trace", "recursion", "undefined_get",
     "undefined_set", "defined_set", "equal_instances", "equal_closures",
     "equal_classes", "equal_values", "block_closure"}

\* The programs whose text has the number literal n.
Numbered ==
    {"share", "share_after_capture", "undefined_get", "undefined_set",
     "defined_set", "equal_instances", "equal_values", "block_closure"}

ChunkSources ==
    {[kind |-> "chunk", name |-> name, n |-> n] :
        name \in Numbered, n \in 0..MaxNum}
    \cup {[kind |-> "chunk", name |-> name, n |-> 0] : name \in ChunkNames \ Numbered}

\* compiler::compile on a chunk source.
compiled(src) ==
    CASE src.name = "share" -> ChunkShare(FALSE, src.n)
      [] src.name = "share_after_capture" -> ChunkShare(TRUE, src.n)
      [] src.name = "error_trace" -> ChunkErrorTrace
      [] src.name = "recursion" -> ChunkRecursion
      [] src.name = "undefined_get" -> ChunkUndefinedGet(src.n)
      [] src.name = "undefined_set" -> ChunkUndefinedSet(src.n)
      [] src.name = "defined_set" -> ChunkDefinedSet(src.n)
      [] src.name = "equal_instances" -> ChunkEqualInstances(src.n)
      [] src.name = "equal_closures" -> ChunkEqualClosures
      [] src.name = "equal_classes" -> ChunkEqualClasses
      [] src.name = "equal_values" -> ChunkEqualValues(src.n)
      [] src.name = "block_closure" -> ChunkBlockClosure(src.n)

(***************************************************************************)
(* The state machine: main (main.rs), VM::interpret and VM::run.           *)
(***************************************************************************)
MaxNow == 1

\* A run() that drops the Err of an instruction and goes round the loop.
run_outcome_swallow(c) ==
    IF c.fault = "panic" THEN [pc |-> "returned", res |-> "panic"]
    ELSE IF c.fault = "hang" THEN [pc |-> "hang", res |-> "hang"]
    ELSE IF c.done THEN [pc |-> "returned", res |-> "Ok"]
    ELSE [pc |-> "run", res |-> "none"]

\* What run() does with the outcome of one instruction: an Err leaves the
\* loop through `?` / `return Err(..)`, a panic unwinds, Ok(()) is returned by
\* the last Return, anything else goes round the loop.
run_outcome(c) ==
    IF c.fault = "RuntimeError" THEN [pc |-> "returned", res |-> "RuntimeError"]
    ELSE IF c.fault = "panic" THEN [pc |-> "returned", res |-> "panic"]
    ELSE IF c.fault = "hang" THEN [pc |-> "hang", res |-> "hang"]
    ELSE IF c.done THEN [pc |-> "returned", res |-> "Ok"]
    ELSE [pc |-> "run", res |-> "none"]

\* The state after one instruction.  A panic prints its message on stderr.
Commit(c) ==
    /\ frames' = c.frames
    /\ stack' = c.stack
    /\ open_upvalues' = c.open_upvalues
    /\ heap' = c.heap
    /\ globals' = c.globals
    /\ out' = c.out
    /\ err' = IF c.fault = "panic"
              THEN Append(c.err, "thread 'main' panicked: " \o c.message)
              ELSE c.err
    /\ born' = c.born
    /\ stamp' = c.stamp
    /\ called' = c.called
    /\ declared' = c.declared
    /\ pc' = run_outcome(c).pc
    /\ res' = run_outcome(c).res
    /\ UNCHANGED <<source, exit_code, comp, scanner, scans, lines_read>>

\* let instruction = ctx.read_byte();
Fetched == read_byte(Ctx)
Running(opcode) == pc = "run" /\ Fetched.byte = opcode

\* VM::interpret after compile(): RunCtx::new(), the script closure in slot 0
\* and its frame.
Interpret ==
    /\ pc = "compiled"
    /\ LET c0 == [Ctx EXCEPT !.frames = <<>>, !.stack = <<>>, !.born = <<>>,
                             !.open_upvalues = <<>>]
           c1 == alloc(c0, Closure(comp.comp_unit.function))
           c2 == call(push(c1, Obj(new_ref(c0))), new_ref(c0), 0)
       IN Commit(c2)

OpConstant == Running(OP_CONSTANT) /\ Commit(op_constant(Fetched.c))
OpNil == Running(OP_NIL) /\ Commit(push(Fetched.c, Nil))
OpTrue == Running(OP_TRUE) /\ Commit(push(Fetched.c, Bool(TRUE)))
OpFalse == Running(OP_FALSE) /\ Commit(push(Fetched.c, Bool(FALSE)))
OpPop == Running(OP_POP) /\ Commit(op_pop(Fetched.c))
OpGetLocal == Running(OP_GET_LOCAL) /\ Commit(op_get_local(Fetched.c))
OpSetLocal == Running(OP_SET_LOCAL) /\ Commit(op_set_local(Fetched.c))
OpGetGlobal == Running(OP_GET_GLOBAL) /\ Commit(op_get_global(Fetched.c))
OpDefineGlobal == Running(OP_DEFINE_GLOBAL) /\ Commit(op_define_global(Fetched.c))
OpSetGlobal == Running(OP_SET_GLOBAL) /\ Commit(op_set_global(Fetched.c))
OpGetProperty == Running(OP_GET_PROPERTY) /\ Commit(op_get_property(Fetched.c))
OpSetProperty == Running(OP_SET_PROPERTY) /\ Commit(op_set_property(Fetched.c))
OpGetUpvalue == Running(OP_GET_UPVALUE) /\ Commit(op_get_upvalue(Fetched.c))
OpSetUpvalue == Running(OP_SET_UPVALUE) /\ Commit(op_set_upvalue(Fetched.c))
OpEqual == Running(OP_EQUAL) /\ Commit(op_equal(Fetched.c))
OpAdd == Running(OP_ADD) /\ Commit(op_add(Fetched.c))
OpPrint == Running(OP_PRINT) /\ Commit(op_print(Fetched.c))
OpGreater == Running(OP_GREATER) /\ Commit(binary_op_compare(Fetched.c, ">"))
OpLess == Running(OP_LESS) /\ Commit(binary_op_compare(Fetched.c, "<"))
OpSubtract == Running(OP_SUBTRACT) /\ Commit(binary_op_num(Fetched.c, "-"))
OpMultiply == Running(OP_MULTIPLY) /\ Commit(binary_op_num(Fetched.c, "*"))
OpDivide == Running(OP_DIVIDE) /\ Commit(binary_op_num(Fetched.c, "/"))
OpNegate == Running(OP_NEGATE) /\ Commit(op_negate(Fetched.c))
OpNot == Running(OP_NOT) /\ Commit(op_not(Fetched.c))
OpJump == Running(OP_JUMP) /\ Commit(op_jump(Fetched.c))
OpJumpIfFalse == Running(OP_JUMP_IF_FALSE) /\ Commit(op_jump_if_false(Fetched.c))
OpLoop == Running(OP_LOOP) /\ Commit(op_loop(Fetched.c))
OpCall == Running(OP_CALL) /\ \E now \in 0..MaxNow : Commit(op_call(Fetched.c, now))
OpClosure == Running(OP_CLOSURE) /\ Commit(op_closure(Fetched.c))
OpCloseUpvalue == Running(OP_CLOSE_UPVALUE) /\ Commit(op_close_upvalue(Fetched.c))
OpReturn == Running(OP_RETURN) /\ Commit(op_return(Fetched.c))
OpClass == Running(OP_CLASS) /\ Commit(op_class(Fetched.c))
OpInherit == Running(OP_INHERIT) /\ Commit(op_inherit(Fetched.c))
OpMethod == Running(OP_METHOD) /\ Commit(op_method(Fetched.c))
OpGetSuper == Running(OP_GET_SUPER) /\ Commit(op_get_super(Fetched.c))
OpInvoke == Running(OP_INVOKE) /\ \E now \in 0..MaxNow : Commit(op_invoke(Fetched.c, now))
OpSuperInvoke == Running(OP_SUPER_INVOKE) /\ Commit(op_super_invoke(Fetched.c))

\* A main whose downcast to LoxError fails.
exit_status_no_downcast(result) ==
    IF result = "Ok" THEN 0
    ELSE IF result = "RuntimeError" THEN 65
    ELSE IF result = "CompileError" THEN 65
    ELSE 101

\* main: the exit code for the result of run_file; a panic that unwinds
\* main exits with 101.
exit_status(result) ==
    IF result = "Ok" THEN 0
    ELSE IF result = "RuntimeError" THEN 70
    ELSE IF result = "CompileError" THEN 65
    ELSE 101

\* main once run_file() has returned, or once a panic has unwound it;
\* repl() returns no result of interpret().
Exit ==
    /\ pc = "returned"
    /\ lines_read > 0 => res = "panic"
    /\ pc' = "exited"
    /\ exit_code' = exit_status(res)
    /\ UNCHANGED <<source, res, comp, frames, stack, open_upvalues, heap, globals,
                   out, err, born, stamp, called, declared, scanner, scans,
                   lines_read>>

(***************************************************************************)
(* The compiler front end (compiler.rs, scanner.rs).  A "tokens" source is *)
(* the sequence of tokens the scanner produces for the text, all on line   *)
(* 1.  The operators work on the Compiler struct `k`, extended with the    *)
(* stderr lines `err` and with the history `log` of error_at and           *)
(* synchronize events.  `overflow_checks` is the build's setting of that   *)
(* name (on in the dev profile, off in the release profile), `panic` the   *)
(* message of the panic that unwinds compile(), `panic_err` the stderr     *)
(* lines written before it, and `loops` the history of the loops compiled  *)
(* so far.                                                                 *)
(***************************************************************************)
MaxTokens == 4

TokenKinds ==
    {"Print", "Var", "Return", "Semicolon", "Identifier", "Number", "Plus", "Equal",
     "Error"}

lexeme_of(kind) ==
    CASE kind = "Print" -> "print"
      [] kind = "Var" -> "var"
      [] kind = "Return" -> "return"
      [] kind = "Semicolon" -> ";"
      [] kind = "Identifier" -> "x"
      [] kind = "Number" -> "1"
      [] kind = "Plus" -> "+"
      [] kind = "Equal" -> "="
      [] kind = "Error" -> "Unexpected character."
      [] kind = "Eof" -> ""
      [] kind = "LeftBrace" -> "{"
      [] kind = "RightBrace" -> "}"
      [] kind = "LeftParen" -> "("
      [] kind = "RightParen" -> ")"
      [] kind = "Comma" -> ","
      [] kind = "Dot" -> "."
      [] kind = "Less" -> "<"
      [] kind = "Fun" -> "fun"
      [] kind = "Class" -> "class"
      [] kind = "This" -> "this"
      [] kind = "Super" -> "super"
      [] kind = "Minus" -> "-"
      [] kind = "Slash" -> "/"
      [] kind = "Star" -> "*"
      [] kind = "Bang" -> "!"
      [] kind = "BangEqual" -> "!="
      [] kind = "EqualEqual" -> "=="
      [] kind = "Greater" -> ">"
      [] kind = "GreaterEqual" -> ">="
      [] kind = "LessEqual" -> "<="
      [] kind = "And" -> "and"
      [] kind = "Or" -> "or"
      [] kind = "If" -> "if"
      [] kind = "Else" -> "else"
      [] kind = "While" -> "while"
      [] kind = "For" -> "for"
      [] kind = "True" -> "true"
      [] kind = "False" -> "false"
      [] kind = "Nil" -> "nil"

\* scanner::Token
Token(kind, lexeme, line) == [kind |-> kind, lexeme |-> lexeme, line |-> line]

\* Scanner::make_token / Scanner::error_token
make_token(kind) == Token(kind, lexeme_of(kind), 1)

\* The static EOF token of Compiler::new.
EOF == Token("Eof", "", 0)

\* struct Local
Local(name, depth) == [name |-> name, depth |-> depth, is_captured |-> FALSE]

\* CompilationUnit::new: slot 0 is named "this" unless the unit is a plain
\* function.
CompilationUnit(function_type, name, enclosing) ==
    [enclosing |-> enclosing,
     locals |-> <<Local(Token("Identifier",
                              IF function_type # "Function" THEN "this" ELSE "",
                              0), 0)>>,
     upvalues |-> <<>>,
     scope_depth |-> 0,
     function_type |-> function_type,
     function |-> Function(name, 0, 0, <<>>, <<>>, <<>>)]

\* Compiler::new; class_compiler is the chain of ClassCompilers, innermost
\* last.
Compiler(tokens) ==
    [ran |-> FALSE, had_error |-> FALSE, panic_mode |-> FALSE,
     scanner |-> [tokens |-> tokens, pos |-> 0],
     current |-> EOF, previous |-> EOF,
     comp_unit |-> CompilationUnit("Script", "", None),
     class_compiler |-> <<>>,
     err |-> <<>>, log |-> <<>>,
     overflow_checks |-> TRUE, panic |-> "", panic_err |-> <<>>, loops |-> <<>>,
     boundaries |-> {}, scopes |-> <<>>, closures |-> <<>>, iterations |-> {}]

Event(k, event, message) ==
    [event |-> event, previous |-> k.previous.kind, current |-> k.current.kind,
     panic_mode |-> k.panic_mode, message |-> message]

scan_token(k) ==
    IF k.scanner.pos >= Len(k.scanner.tokens)
    THEN [k |-> k, token |-> Token("Eof", "", 1)]
    ELSE [k |-> [k EXCEPT !.scanner.pos = @ + 1],
          token |-> k.scanner.tokens[k.scanner.pos + 1]]

\* error_at without the panic-mode early return.
error_at_unsuppressed(k, token, message) ==
    [k EXCEPT
        !.panic_mode = TRUE,
        !.err = Append(@, "[line " \o ToString(token.line) \o "] Error"
                    \o (IF token.kind = "Eof" THEN " at end"
                        ELSE IF token.kind = "Error" THEN ""
                        ELSE " at '" \o token.lexeme \o "'")
                    \o ": " \o message),
        !.had_error = TRUE,
        !.log = Append(@, Event(k, "error", message))]

error_at(k, token, message) ==
    IF k.panic_mode THEN [k EXCEPT !.log = Append(@, Event(k, "suppressed", message))]
    ELSE [k EXCEPT
            !.panic_mode = TRUE,
            !.err = Append(@, "[line " \o ToString(token.line) \o "] Error"
                        \o (IF token.kind = "Eof" THEN " at end"
                            ELSE IF token.kind = "Error" THEN ""
                            ELSE " at '" \o token.lexeme \o "'")
                        \o ": " \o message),
            !.had_error = TRUE,
            !.log = Append(@, Event(k, "error", message))]

error_at_current(k, message) == error_at(k, k.current, message)
error(k, message) == error_at(k, k.previous, message)

\* The loop of advance(): scan until a token that is not an Error token.
RECURSIVE advance_loop(_)
advance_loop(k) ==
    LET s == scan_token(k)
        k1 == [s.k EXCEPT !.current = s.token]
    IN IF s.token.kind # "Error" THEN k1
       ELSE advance_loop(error_at_current(k1, k1.current.lexeme))

advance(k) == advance_loop([k EXCEPT !.previous = k.current])

check(k, kind) == k.current.kind = kind

match_token(k, kind) ==
    IF ~check(k, kind) THEN [k |-> k, matched |-> FALSE]
    ELSE [k |-> advance(k), matched |-> TRUE]

consume(k, kind, message) ==
    IF k.current.kind = kind THEN advance(k) ELSE error_at_current(k, message)

\* Chunk::write_chunk through emit_byte.
emit_byte(k, byte) ==
    [k EXCEPT !.comp_unit.function.chunk.code = Append(@, byte),
              !.comp_unit.function.chunk.lines = Append(@, k.previous.line)]

\* emit_byte(byte1); emit_byte(byte2);
emit_bytes(k, byte1, byte2) ==
    [k EXCEPT !.comp_unit.function.chunk.code = @ \o <<byte1, byte2>>,
              !.comp_unit.function.chunk.lines = @ \o <<k.previous.line, k.previous.line>>]

\* emit_return that returns nil from every kind of function.
emit_return_nil(k) == emit_byte(emit_byte(k, OP_NIL), OP_RETURN)

\* emit_return: an initializer returns `this` (slot 0), everything else nil.
emit_return(k) ==
    emit_byte(IF k.comp_unit.function_type = "Initializer"
              THEN emit_bytes(k, OP_GET_LOCAL, 0)
              ELSE emit_byte(k, OP_NIL),
              OP_RETURN)

\* current_chunk().code.len()
code_len(k) == Len(k.comp_unit.function.chunk.code)

\* History: the parser stands between two statements of the function it
\* compiles, at this offset of its code and with these locals in scope.
note_boundary(k) ==
    [k EXCEPT !.boundaries = @ \cup {[function |-> k.comp_unit.function.name,
                                      at |-> code_len(k),
                                      locals |-> Len(k.comp_unit.locals)]}]

\* end_comp_unit: the finished function; the enclosing unit becomes current.
end_comp_unit(k) ==
    LET k1 == emit_return(note_boundary(k))
    IN [k |-> IF k1.comp_unit.enclosing.some
              THEN [k1 EXCEPT !.comp_unit = k1.comp_unit.enclosing.v]
              ELSE k1,
        func |-> k1.comp_unit.function]

\* make_constant over Chunk::add_constant: the constant's index.
\* Chunk::add_constant: an Err once the chunk holds u8::MAX constants.
add_constant(chunk, value) ==
    IF Len(chunk.constants) >= U8_MAX
    THEN [ok |-> FALSE, chunk |-> chunk, constant |-> 0]
    ELSE [ok |-> TRUE, chunk |-> [chunk EXCEPT !.constants = Append(@, value)],
          constant |-> Len(chunk.constants)]

\* make_constant tests the index against u8::MAX; add_constant has refused
\* the value before an index can be that large.
make_constant(k, value) ==
    LET constant == add_constant(k.comp_unit.function.chunk, value)
        k1 == [k EXCEPT !.comp_unit.function.chunk = constant.chunk]
    IN IF ~constant.ok \/ constant.constant > U8_MAX
       THEN [k |-> error(k1, "Too many constants in one chunk."), constant |-> 0]
       ELSE [k |-> k1, constant |-> constant.constant]

emit_constant(k, value) ==
    LET m == make_constant(k, value) IN emit_bytes(m.k, OP_CONSTANT, m.constant)

identifier_constant(k, name) == make_constant(k, Str(name))

\* enum Precedence, as u8.
PREC_NONE == 0
PREC_ASSIGNMENT == 1
PREC_OR == 2
PREC_AND == 3
PREC_EQUALITY == 4
PREC_COMPARISON == 5
PREC_TERM == 6
PREC_FACTOR == 7
PREC_UNARY == 8
PREC_CALL == 9
PREC_PRIMARY == 10

\* Precedence::next
next_precedence(precedence) ==
    IF precedence + 1 > PREC_PRIMARY THEN PREC_NONE ELSE precedence + 1

ParseRule(prefix, infix, precedence) ==
    [prefix |-> prefix, infix |-> infix, precedence |-> precedence]

\* get_rule, for the token kinds of the sources.
get_rule(kind) ==
    CASE kind = "LeftParen" -> ParseRule("grouping", "call", PREC_CALL)
      [] kind = "Dot" -> ParseRule("None", "dot", PREC_CALL)
      [] kind = "Minus" -> ParseRule("unary", "binary", PREC_TERM)
      [] kind = "Plus" -> ParseRule("None", "binary", PREC_TERM)
      [] kind \in {"Slash", "Star"} -> ParseRule("None", "binary", PREC_FACTOR)
      [] kind = "Bang" -> ParseRule("unary", "None", PREC_NONE)
      [] kind \in {"BangEqual", "EqualEqual"} -> ParseRule("None", "binary", PREC_EQUALITY)
      [] kind \in {"Greater", "GreaterEqual", "Less", "LessEqual"} ->
            ParseRule("None", "binary", PREC_COMPARISON)
      [] kind = "And" -> ParseRule("None", "and", PREC_AND)
      [] kind = "Or" -> ParseRule("None", "or", PREC_OR)
      [] kind \in {"False", "Nil", "True"} -> ParseRule("literal", "None", PREC_NONE)
      [] kind = "Identifier" -> ParseRule("variable", "None", PREC_NONE)
      [] kind = "String" -> ParseRule("string", "None", PREC_NONE)
      [] kind = "Number" -> ParseRule("number", "None", PREC_NONE)
      [] kind = "Super" -> ParseRule("super_", "None", PREC_NONE)
      [] kind = "This" -> ParseRule("this", "None", PREC_NONE)
      [] OTHER -> ParseRule("None", "None", PREC_NONE)

RECURSIVE infix_loop(_, _, _)
RECURSIVE self_call(_, _, _)

(* self.f(..): a call of one method of the Compiler by another. Recursive   *)
(* descent makes the methods call one another in cycles (a grouping holds   *)
(* an expression, a block holds declarations, a method holds a block), so   *)
(* they call through self_call, which is defined after all of them.         *)
self_parse_precedence(k, precedence) == self_call("parse_precedence", k, <<precedence>>)
self_parse_fn(rule, k, can_assign) == self_call("parse_fn", k, <<rule, can_assign>>)
self_named_variable(k, name, can_assign) ==
    self_call("named_variable", k, <<name, can_assign>>)
self_argument_list(k) == self_call("argument_list", k, <<>>)
self_block(k) == self_call("block", k, <<>>)
self_function(k, function_type) == self_call("function", k, <<function_type>>)
self_method(k) == self_call("method", k, <<>>)
self_class_declaration(k) == self_call("class_declaration", k, <<>>)
self_fun_declaration(k) == self_call("fun_declaration", k, <<>>)
self_var_declaration(k) == self_call("var_declaration", k, <<>>)
self_statement(k) == self_call("statement", k, <<>>)
self_declaration(k) == self_call("declaration", k, <<>>)
self_if_then(k) == self_call("if_then", k, <<>>)
self_if_else(k, then_jump) == self_call("if_else", k, <<then_jump>>)
self_if_end(k, else_jump) == self_call("if_end", k, <<else_jump>>)
self_while_body(k, loop_start, begin) == self_call("while_body", k, <<loop_start, begin>>)
self_while_end(k, loop_start, begin, exit_jump) ==
    self_call("while_end", k, <<loop_start, begin, exit_jump>>)
self_for_condition(k) == self_call("for_condition", k, <<>>)
self_for_exit_jump(k, l) == self_call("for_exit_jump", k, <<l>>)
self_for_increment(k, l) == self_call("for_increment", k, <<l>>)
self_for_increment_end(k, l, body_jump) ==
    self_call("for_increment_end", k, <<l, body_jump>>)
self_for_body(k, l) == self_call("for_body", k, <<l>>)
self_for_end(k, l) == self_call("for_end", k, <<l>>)

expression(k) == self_parse_precedence(k, PREC_ASSIGNMENT)

\* str::parse::<f64> of a number lexeme: the number that prints as the lexeme.
parse_f64(lexeme) == CHOOSE n \in 0..9 : ToString(n) = lexeme

number(k, can_assign) == emit_constant(k, Number(parse_f64(k.previous.lexeme)))

\* lexeme[1..len - 1] of a string literal: the text between the quotes.
string_contents(lexeme) ==
    CHOOSE s \in {"", "A", "B", "C", "foo", "bar", "baz"} : "\"" \o s \o "\"" = lexeme

string(k, can_assign) == emit_constant(k, Str(string_contents(k.previous.lexeme)))

grouping(k, can_assign) ==
    consume(expression(k), "RightParen", "Expect ')' after expression.")

Max(S) == CHOOSE x \in S : \A y \in S : y <= x

\* CompilationUnit::resolve_local: the innermost local of that name, as
\* Ok(Some(local)), Ok(None) (local = -1) or Err(err).
resolve_local(unit, name) ==
    LET named == {i \in 1..Len(unit.locals) : unit.locals[i].name.lexeme = name}
    IN IF named = {} THEN [err |-> "", local |-> -1]
       ELSE IF unit.locals[Max(named)].depth = -1
       THEN [err |-> "Can't read local variable in its own initializer.", local |-> -1]
       ELSE [err |-> "", local |-> Max(named) - 1]

\* CompilationUnit::add_upvalue
add_upvalue(unit, index, is_local) ==
    LET same == {i \in 1..Len(unit.upvalues) :
                    unit.upvalues[i] = [index |-> index, is_local |-> is_local]}
    IN IF same # {}
       THEN [unit |-> unit, err |-> "", upvalue |-> (CHOOSE i \in same : TRUE) - 1]
       ELSE IF Len(unit.upvalues) = U8_MAX
       THEN [unit |-> unit, err |-> "Too many closure variables in function.",
             upvalue |-> -1]
       ELSE [unit |-> [unit EXCEPT
                          !.function.upvalue_count = @ + 1,
                          !.upvalues = Append(@, [index |-> index, is_local |-> is_local])],
             err |-> "", upvalue |-> Len(unit.upvalues)]

RECURSIVE resolve_upvalue(_, _)
\* resolve_upvalue that leaves is_captured of the enclosing local alone.
resolve_upvalue_unmarked(unit, name) ==
    IF ~unit.enclosing.some THEN [unit |-> unit, err |-> "", upvalue |-> -1]
    ELSE LET local == resolve_local(unit.enclosing.v, name)
             outer == resolve_upvalue(unit.enclosing.v, name)
             unit1 == [unit EXCEPT !.enclosing.v = outer.unit]
         IN IF local.err # "" THEN [unit |-> unit, err |-> local.err, upvalue |-> -1]
            ELSE IF local.local # -1
            THEN add_upvalue(unit, local.local, TRUE)
            ELSE IF outer.err # "" THEN [unit |-> unit1, err |-> outer.err, upvalue |-> -1]
            ELSE IF outer.upvalue # -1 THEN add_upvalue(unit1, outer.upvalue, FALSE)
            ELSE [unit |-> unit1, err |-> "", upvalue |-> -1]

\* CompilationUnit::resolve_upvalue, with the unit as it leaves.
resolve_upvalue(unit, name) ==
    IF ~unit.enclosing.some THEN [unit |-> unit, err |-> "", upvalue |-> -1]
    ELSE LET local == resolve_local(unit.enclosing.v, name)
             outer == resolve_upvalue(unit.enclosing.v, name)
             unit1 == [unit EXCEPT !.enclosing.v = outer.unit]
         IN IF local.err # "" THEN [unit |-> unit, err |-> local.err, upvalue |-> -1]
            ELSE IF local.local # -1
            THEN add_upvalue(
                    [unit EXCEPT !.enclosing.v.locals[local.local + 1].is_captured = TRUE],
                    local.local, TRUE)
            ELSE IF outer.err # "" THEN [unit |-> unit1, err |-> outer.err, upvalue |-> -1]
            ELSE IF outer.upvalue # -1 THEN add_upvalue(unit1, outer.upvalue, FALSE)
            ELSE [unit |-> unit1, err |-> "", upvalue |-> -1]

\* named_variable: a local of the unit, else an upvalue, else a global.
named_variable(k, name, can_assign) ==
    LET local == resolve_local(k.comp_unit, name)
        k1 == IF local.err = "" THEN k ELSE error_at(k, k.previous, local.err)
        up == resolve_upvalue(k1.comp_unit, name)
        k2 == [k1 EXCEPT !.comp_unit = up.unit]
        k3 == IF up.err = "" THEN k2 ELSE error_at(k2, k2.previous, up.err)
        global == identifier_constant(k3, name)
        var == IF local.local # -1
               THEN [k |-> k, get_op |-> OP_GET_LOCAL, set_op |-> OP_SET_LOCAL,
                     arg |-> local.local]
               ELSE IF up.upvalue # -1
               THEN [k |-> k3, get_op |-> OP_GET_UPVALUE, set_op |-> OP_SET_UPVALUE,
                     arg |-> up.upvalue]
               ELSE [k |-> global.k, get_op |-> OP_GET_GLOBAL, set_op |-> OP_SET_GLOBAL,
                     arg |-> global.constant]
        m == match_token(var.k, "Equal")
    IN IF can_assign /\ m.matched
       THEN emit_bytes(expression(m.k), var.set_op, var.arg)
       ELSE emit_bytes(var.k, var.get_op, var.arg)

variable(k, can_assign) == self_named_variable(k, k.previous.lexeme, can_assign)

unary(k, can_assign) ==
    LET operator_type == k.previous.kind
        k1 == self_parse_precedence(k, PREC_UNARY)
    IN CASE operator_type = "Minus" -> emit_byte(k1, OP_NEGATE)
         [] operator_type = "Bang" -> emit_byte(k1, OP_NOT)

binary(k, can_assign) ==
    LET operator_type == k.previous.kind
        rule == get_rule(operator_type)
        k1 == self_parse_precedence(k, next_precedence(rule.precedence))
    IN CASE operator_type = "BangEqual" -> emit_bytes(k1, OP_EQUAL, OP_NOT)
         [] operator_type = "EqualEqual" -> emit_byte(k1, OP_EQUAL)
         [] operator_type = "Greater" -> emit_byte(k1, OP_GREATER)
         [] operator_type = "GreaterEqual" -> emit_bytes(k1, OP_LESS, OP_NOT)
         [] operator_type = "Less" -> emit_byte(k1, OP_LESS)
         [] operator_type = "LessEqual" -> emit_bytes(k1, OP_GREATER, OP_NOT)
         [] operator_type = "Plus" -> emit_byte(k1, OP_ADD)
         [] operator_type = "Minus" -> emit_byte(k1, OP_SUBTRACT)
         [] operator_type = "Star" -> emit_byte(k1, OP_MULTIPLY)
         [] operator_type = "Slash" -> emit_byte(k1, OP_DIVIDE)

literal(k, can_assign) ==
    CASE k.previous.kind = "False" -> emit_byte(k, OP_FALSE)
      [] k.previous.kind = "Nil" -> emit_byte(k, OP_NIL)
      [] k.previous.kind = "True" -> emit_byte(k, OP_TRUE)

\* a - b on usize.  With overflow checks a negative difference panics;
\* without them it wraps to 2^64 + a - b, which the integer a - b stands for
\* here: the sums it enters wrap back into range.
usize_sub(k, a, b) ==
    [k |-> IF a < b /\ k.overflow_checks /\ k.panic = ""
           THEN [k EXCEPT !.panic = "attempt to subtract with overflow",
                          !.panic_err = k.err]
           ELSE k,
     n |-> a - b]

emit_jump(k, instruction) ==
    LET k1 == emit_byte(emit_byte(emit_byte(k, instruction), 255), 255)
    IN [k |-> k1, offset |-> code_len(k1) - 2]

patch_jump(k, offset) ==
    LET jump == code_len(k) - offset - 2
        k1 == IF jump > 65535 THEN error(k, "Too much code to jump over.") ELSE k
    IN [k1 EXCEPT !.comp_unit.function.chunk.code[offset + 1] = (jump \div 256) % 256,
                  !.comp_unit.function.chunk.code[offset + 2] = jump % 256]

emit_loop(k, loop_start) ==
    LET offset == code_len(k) - loop_start + 2
        k1 == IF offset > 65535 THEN error(k, "Loop body too large.") ELSE k
    IN emit_byte(emit_byte(emit_byte(k1, OP_LOOP), (offset \div 256) % 256), offset % 256)

\* History: the Loop instruction at offset `at` of the current function
\* closes a loop whose condition (or increment clause) begins at offset
\* `begin` and whose exit JumpIfFalse is at offset `exit` (-1: none).
note_loop(k, begin, at, exit) ==
    [k EXCEPT !.loops = Append(@, [function |-> k.comp_unit.function.name,
                                   begin |-> begin, at |-> at, exit |-> exit])]

\* and() that emits no jump over the right operand.
and_without_jump(k, can_assign) ==
    self_parse_precedence(emit_byte(k, OP_POP), PREC_AND)

and_(k, can_assign) ==
    LET end_jump == emit_jump(k, OP_JUMP_IF_FALSE)
        k1 == self_parse_precedence(emit_byte(end_jump.k, OP_POP), PREC_AND)
    IN patch_jump(k1, end_jump.offset)

or_(k, can_assign) ==
    LET else_jump == emit_jump(k, OP_JUMP_IF_FALSE)
        end_jump == emit_jump(else_jump.k, OP_JUMP)
        k1 == emit_byte(patch_jump(end_jump.k, else_jump.offset), OP_POP)
    IN patch_jump(self_parse_precedence(k1, PREC_OR), end_jump.offset)

\* The loop of argument_list; `returned` is its early return.
RECURSIVE arguments(_, _)
arguments(k, arg_count) ==
    LET k1 == expression(k)
        m == match_token(k1, "Comma")
    IN IF arg_count = 255
       THEN [k |-> error(k1, "Can't have more than 255 arguments."), arg_count |-> 0,
             returned |-> TRUE]
       ELSE IF m.matched THEN arguments(m.k, arg_count + 1)
       ELSE [k |-> k1, arg_count |-> arg_count + 1, returned |-> FALSE]

argument_list(k) ==
    LET a == IF check(k, "RightParen")
             THEN [k |-> k, arg_count |-> 0, returned |-> FALSE]
             ELSE arguments(k, 0)
    IN IF a.returned THEN [k |-> a.k, arg_count |-> 0]
       ELSE [k |-> consume(a.k, "RightParen", "Expect ')' after arguments."),
             arg_count |-> a.arg_count]

\* Compiler::call, the infix rule of `(`.
compile_call(k, can_assign) ==
    LET a == self_argument_list(k) IN emit_bytes(a.k, OP_CALL, a.arg_count)

dot(k, can_assign) ==
    LET k1 == consume(k, "Identifier", "Expect property name after '.'.")
        name == identifier_constant(k1, k1.previous.lexeme)
        equal == match_token(name.k, "Equal")
        paren == match_token(name.k, "LeftParen")
        a == self_argument_list(paren.k)
    IN IF can_assign /\ equal.matched
       THEN emit_bytes(expression(equal.k), OP_SET_PROPERTY, name.constant)
       ELSE IF paren.matched
       THEN emit_byte(emit_bytes(a.k, OP_INVOKE, name.constant), a.arg_count)
       ELSE emit_bytes(name.k, OP_GET_PROPERTY, name.constant)

this(k, can_assign) ==
    IF k.class_compiler = <<>> THEN error(k, "Cannot use 'this' outside of a class.")
    ELSE variable(k, FALSE)

super_(k, can_assign) ==
    LET k1 == consume(k, "Dot", "Expect '.' after 'super'.")
        k2 == consume(k1, "Identifier", "Expect superclass method name.")
        name == identifier_constant(k2, k2.previous.lexeme)
        k3 == self_named_variable(name.k, "this", FALSE)
        paren == match_token(k3, "LeftParen")
        a == self_argument_list(paren.k)
    IN IF k.class_compiler = <<>>
       THEN error(k, "Cannot use 'super' outside of a class.")
       ELSE IF ~k.class_compiler[Len(k.class_compiler)].has_superclass
       THEN error(k, "Cannot use 'super' in a class with no superclass.")
       ELSE IF paren.matched
       THEN emit_byte(emit_bytes(self_named_variable(a.k, "super", FALSE),
                                 OP_SUPER_INVOKE, name.constant),
                      a.arg_count)
       ELSE emit_bytes(self_named_variable(k3, "super", FALSE), OP_GET_SUPER, name.constant)

\* A prefix or infix parse function applied through its ParseRule entry.
parse_fn(rule, k, can_assign) ==
    CASE rule = "grouping" -> grouping(k, can_assign)
      [] rule = "call" -> compile_call(k, can_assign)
      [] rule = "dot" -> dot(k, can_assign)
      [] rule = "unary" -> unary(k, can_assign)
      [] rule = "binary" -> binary(k, can_assign)
      [] rule = "literal" -> literal(k, can_assign)
      [] rule = "and" -> and_(k, can_assign)
      [] rule = "or" -> or_(k, can_assign)
      [] rule = "variable" -> variable(k, can_assign)
      [] rule = "string" -> string(k, can_assign)
      [] rule = "number" -> number(k, can_assign)
      [] rule = "super_" -> super_(k, can_assign)
      [] rule = "this" -> this(k, can_assign)

\* The while loop of parse_precedence over the infix operators.
infix_loop(k, precedence, can_assign) ==
    IF precedence > get_rule(k.current.kind).precedence THEN k
    ELSE LET k1 == advance(k)
             infix_rule == get_rule(k1.previous.kind).infix
         IN infix_loop(IF infix_rule # "None" THEN self_parse_fn(infix_rule, k1, can_assign)
                       ELSE error(k1, "Compiler internal error."),
                       precedence, can_assign)

parse_precedence(k, precedence) ==
    LET k1 == advance(k)
        can_assign == precedence <= PREC_ASSIGNMENT
        prefix_rule == get_rule(k1.previous.kind).prefix
        k3 == infix_loop(self_parse_fn(prefix_rule, k1, can_assign), precedence, can_assign)
        m == match_token(k3, "Equal")
    IN IF prefix_rule = "None" THEN error(k1, "Expect expression.")
       ELSE IF can_assign /\ m.matched THEN error(m.k, "Invalid assignment target")
       ELSE k3

print_statement(k) ==
    emit_byte(consume(expression(k), "Semicolon", "Expect ';' after value."), OP_PRINT)

expression_statement(k) ==
    emit_byte(consume(expression(k), "Semicolon", "Expect ';' after value."), OP_POP)

return_statement(k) ==
    LET k1 == IF k.comp_unit.function_type = "Script"
              THEN error(k, "Cannot return from top-level code.")
              ELSE k
        m == match_token(k1, "Semicolon")
        k2 == IF k1.comp_unit.function_type = "Initializer"
              THEN error(k1, "Can't return a value from an initializer.")
              ELSE k1
    IN IF m.matched THEN emit_return(m.k)
       ELSE emit_byte(consume(expression(k2), "Semicolon",
                              "Expect ';' after return value."), OP_RETURN)

add_local(k, name) ==
    IF Len(k.comp_unit.locals) = U8_MAX
    THEN error(k, "Too many local variables in function.")
    ELSE [k EXCEPT !.comp_unit.locals = Append(@, Local(name, -1))]

\* The loop of declare_variable: a local of that name among the locals
\* above the innermost initialized local of an enclosing scope.
declared_in_scope(unit, name) ==
    LET outer == {i \in 1..Len(unit.locals) :
                    unit.locals[i].depth >= 0 /\ unit.locals[i].depth < unit.scope_depth}
        first == IF outer = {} THEN 1 ELSE Max(outer) + 1
    IN \E i \in first..Len(unit.locals) : unit.locals[i].name.lexeme = name

\* declare_variable that looks no further than the newest local.
declare_variable_newest(k) ==
    IF k.comp_unit.scope_depth = 0 THEN k
    ELSE IF k.comp_unit.locals[Len(k.comp_unit.locals)].name.lexeme = k.previous.lexeme
    THEN error(k, "Already a variable with this name in this scope.")
    ELSE add_local(k, k.previous)

declare_variable(k) ==
    IF k.comp_unit.scope_depth = 0 THEN k
    ELSE IF declared_in_scope(k.comp_unit, k.previous.lexeme)
    THEN error(k, "Already a variable with this name in this scope.")
    ELSE add_local(k, k.previous)

mark_initialized(k) ==
    IF k.comp_unit.scope_depth = 0 THEN k
    ELSE [k EXCEPT !.comp_unit.locals[Len(k.comp_unit.locals)].depth =
                        k.comp_unit.scope_depth]

parse_variable(k, error_message) ==
    LET k1 == declare_variable(consume(k, "Identifier", error_message))
    IN IF k1.comp_unit.scope_depth > 0 THEN [k |-> k1, constant |-> 0]
       ELSE identifier_constant(k1, k1.previous.lexeme)

define_variable(k, global) ==
    IF k.comp_unit.scope_depth > 0 THEN mark_initialized(k)
    ELSE emit_bytes(k, OP_DEFINE_GLOBAL, global)

var_declaration(k) ==
    LET global == parse_variable(k, "Expect variable name.")
        m == match_token(global.k, "Equal")
        k1 == IF m.matched THEN expression(m.k) ELSE emit_byte(global.k, OP_NIL)
        k2 == consume(k1, "Semicolon", "Expect ';' after variable declaration.")
    IN define_variable(k2, global.constant)

\* while !self.check(RightBrace) && !self.check(Eof): the loop of block goes on.
block_open(k) == k.current.kind \notin {"RightBrace", "Eof"}

\* At most n iterations of the loop of block, from a k where it goes on (the
\* first half is evaluated before the second, so that the evaluation nests
\* log n deep).
RECURSIVE block_steps(_, _)
block_steps(k, n) ==
    IF n = 1 THEN self_declaration(k)
    ELSE LET half == block_steps(k, n \div 2)
         IN IF block_open(half) THEN block_steps(half, n - n \div 2) ELSE half

\* The loop of block: n iterations, then 2n, then 4n, ... until it ends.
RECURSIVE block_iterations(_, _)
block_iterations(k, n) ==
    IF block_open(k) THEN block_iterations(block_steps(k, n), 2 * n) ELSE k

block_loop(k) == block_iterations(k, 1)

block(k) == consume(block_loop(k), "RightBrace", "Expect '}' after block.")

begin_scope(k) == [k EXCEPT !.comp_unit.scope_depth = @ + 1]

\* while locals.len() > 0 && locals.last().depth > scope_depth: the loop of
\* end_scope goes on.
scope_open(k) ==
    /\ k.comp_unit.locals # <<>>
    /\ k.comp_unit.locals[Len(k.comp_unit.locals)].depth > k.comp_unit.scope_depth

\* At most n iterations of the loop of end_scope, from a k where it goes on:
\* one CloseUpvalue or Pop per local of the scope.
RECURSIVE end_scope_steps(_, _)
end_scope_steps(k, n) ==
    IF n = 1
    THEN LET locals == k.comp_unit.locals
         IN [emit_byte(k, IF locals[Len(locals)].is_captured
                          THEN OP_CLOSE_UPVALUE ELSE OP_POP)
                EXCEPT !.comp_unit.locals = SubSeq(locals, 1, Len(locals) - 1)]
    ELSE LET half == end_scope_steps(k, n \div 2)
         IN IF scope_open(half) THEN end_scope_steps(half, n - n \div 2) ELSE half

\* That loop: n iterations, then 2n, then 4n, ... until it ends.
RECURSIVE end_scope_iterations(_, _)
end_scope_iterations(k, n) ==
    IF scope_open(k) THEN end_scope_iterations(end_scope_steps(k, n), 2 * n) ELSE k

\* end_scope's loop that stops after the first local.
end_scope_loop_once(k) == IF scope_open(k) THEN end_scope_steps(k, 1) ELSE k

end_scope_loop(k) == end_scope_iterations(k, 1)

\* History: end_scope has taken the compiler from `before` to `after`.
scope_ended(before, after) ==
    [after EXCEPT !.scopes =
        Append(@, [function |-> after.comp_unit.function.name,
                   depth |-> after.comp_unit.scope_depth,
                   at |-> code_len(before),
                   locals |-> before.comp_unit.locals,
                   kept |-> after.comp_unit.locals,
                   code |-> SubSeq(after.comp_unit.function.chunk.code,
                                   code_len(before) + 1, code_len(after))])]

end_scope(k) ==
    scope_ended(k, end_scope_loop([k EXCEPT !.comp_unit.scope_depth = @ - 1]))

\* if_statement, from the then branch on, from the else branch on and its
\* last line.
if_end(k, else_jump) == patch_jump(k, else_jump)

if_else(k, then_jump) ==
    LET else_jump == emit_jump(k, OP_JUMP)
        k3 == emit_byte(patch_jump(else_jump.k, then_jump), OP_POP)
        else == match_token(k3, "Else")
    IN self_if_end(IF else.matched THEN self_statement(else.k) ELSE k3, else_jump.offset)

if_then(k) ==
    LET then_jump == emit_jump(k, OP_JUMP_IF_FALSE)
    IN self_if_else(self_statement(emit_byte(then_jump.k, OP_POP)), then_jump.offset)

if_statement(k) ==
    self_if_then(consume(expression(consume(k, "LeftParen",
                                                 "Expect '(' after 'if'.")),
                         "RightParen", "Expect ')' after condition."))

\* while_statement, from the exit jump on and from emit_loop on; `begin` is
\* the offset of the first byte of the condition.
while_end(k, loop_start, begin, exit_jump) ==
    emit_byte(patch_jump(note_loop(emit_loop(k, loop_start), begin, code_len(k),
                                   exit_jump - 1),
                         exit_jump),
              OP_POP)

while_body(k, loop_start, begin) ==
    LET exit_jump == emit_jump(k, OP_JUMP_IF_FALSE)
    IN self_while_end(self_statement(emit_byte(exit_jump.k, OP_POP)), loop_start, begin,
                      exit_jump.offset)

while_statement(k) ==
    LET loop_start == usize_sub(k, code_len(k), 1)
    IN self_while_body(consume(expression(consume(loop_start.k, "LeftParen",
                                                       "Expect '(' after 'while'.")),
                               "RightParen", "Expect ')' after condition."),
                       loop_start.n, code_len(k))

\* for_statement clause by clause.  `l` holds the local variables of
\* for_statement: loop_start, exit_jump (-1: None), and for the history the
\* offset `begin` that loop_start stands for.
for_end(k, l) ==
    LET k1 == note_loop(emit_loop(k, l.loop_start), l.begin, code_len(k),
                        IF l.exit_jump = -1 THEN -1 ELSE l.exit_jump - 1)
    IN end_scope(IF l.exit_jump = -1 THEN k1
                 ELSE emit_byte(patch_jump(k1, l.exit_jump), OP_POP))

for_body(k, l) == self_for_end(self_statement(k), l)

for_increment_end(k, l, body_jump) ==
    self_for_body(patch_jump(note_loop(emit_loop(k, l.loop_start), l.begin,
                                       code_len(k), -1),
                             body_jump),
                  [l EXCEPT !.loop_start = body_jump + 1, !.begin = body_jump + 2])

for_increment(k, l) ==
    LET no_increment == match_token(k, "RightParen")
        body_jump == emit_jump(k, OP_JUMP)
        increment_start == code_len(body_jump.k) - 1
    IN IF no_increment.matched THEN self_for_body(no_increment.k, l)
       ELSE self_for_increment_end(
                consume(emit_byte(expression(body_jump.k), OP_POP), "RightParen",
                        "Expect ')' after for clauses."),
                l, body_jump.offset)

for_exit_jump(k, l) ==
    LET exit_jump == emit_jump(k, OP_JUMP_IF_FALSE)
    IN self_for_increment(emit_byte(exit_jump.k, OP_POP),
                          [l EXCEPT !.exit_jump = exit_jump.offset])

for_condition(k) ==
    LET loop_start == usize_sub(k, code_len(k), 1)
        l == [loop_start |-> loop_start.n, exit_jump |-> -1, begin |-> code_len(k)]
        no_condition == match_token(loop_start.k, "Semicolon")
    IN IF no_condition.matched THEN self_for_increment(no_condition.k, l)
       ELSE self_for_exit_jump(consume(expression(loop_start.k), "Semicolon",
                                       "Expect ';'."), l)

for_statement(k) ==
    LET k0 == consume(begin_scope(k), "LeftParen", "Expect '(' after 'for'.")
        no_initializer == match_token(k0, "Semicolon")
        var == match_token(k0, "Var")
    IN self_for_condition(IF no_initializer.matched THEN no_initializer.k
                          ELSE IF var.matched THEN self_var_declaration(var.k)
                          ELSE expression_statement(k0))

statement(k) ==
    LET print == match_token(k, "Print")
        if == match_token(k, "If")
        for == match_token(k, "For")
        return == match_token(k, "Return")
        while == match_token(k, "While")
        brace == match_token(k, "LeftBrace")
    IN CASE print.matched -> print_statement(print.k)
         [] if.matched -> if_statement(if.k)
         [] for.matched -> for_statement(for.k)
         [] return.matched -> return_statement(return.k)
         [] while.matched -> while_statement(while.k)
         [] brace.matched -> end_scope(self_block(begin_scope(brace.k)))
         [] OTHER -> expression_statement(k)

\* One iteration of the loop of function() over the parameters; more is
\* whether the loop goes on (a comma followed).
parameter(r) ==
    LET k1 == [r.k EXCEPT !.comp_unit.function.arity = @ + 1]
        k2 == IF k1.comp_unit.function.arity > 255
              THEN error_at_current(k1, "Can't have more than 255 parameters.")
              ELSE k1
        constant == parse_variable(k2, "Expect parameter name.")
        k3 == define_variable(constant.k, constant.constant)
        m == match_token(k3, "Comma")
    IN [k |-> IF m.matched THEN m.k ELSE k3, more |-> m.matched]

\* At most n iterations of that loop, from an r where it goes on.
RECURSIVE parameter_steps(_, _)
parameter_steps(r, n) ==
    IF n = 1 THEN parameter(r)
    ELSE LET half == parameter_steps(r, n \div 2)
         IN IF half.more THEN parameter_steps(half, n - n \div 2) ELSE half

\* That loop: n iterations, then 2n, then 4n, ... until it ends.
RECURSIVE parameter_iterations(_, _)
parameter_iterations(r, n) ==
    IF r.more THEN parameter_iterations(parameter_steps(r, n), 2 * n) ELSE r

parameters(k) == parameter_iterations([k |-> k, more |-> TRUE], 1).k

\* The (is_local, index) pairs after Closure, from upvalue i + 1 on.
RECURSIVE emit_upvalues(_, _, _)
emit_upvalues(k, upvalues, i) ==
    IF i >= Len(upvalues) THEN k
    ELSE emit_upvalues(
            emit_bytes(k, IF upvalues[i + 1].is_local THEN 1 ELSE 0, upvalues[i + 1].index),
            upvalues, i + 1)

\* History: function() has compiled `unit`, whose enclosing units are the
\* ones that compilation goes on with; so many scopes had ended before.
closure_compiled(after, unit) ==
    [after EXCEPT !.closures = Append(@, [unit |-> unit, scopes |-> Len(after.scopes)])]

function(k, function_type) ==
    LET name == k.previous.lexeme
        k1 == begin_scope(
                [k EXCEPT !.comp_unit =
                    CompilationUnit(function_type, name, Some(k.comp_unit))])
        k2 == consume(k1, "LeftParen", "Expect '(' after function name.")
        k3 == IF check(k2, "RightParen") THEN k2 ELSE parameters(k2)
        k4 == consume(k3, "RightParen", "Expect ')' after function name.")
        k5 == self_block(consume(k4, "LeftBrace", "Expect '{' before function body."))
        upvalues == k5.comp_unit.upvalues
        e == end_comp_unit(k5)
        constant == make_constant(e.k, Fun(e.func))
    IN closure_compiled(
            emit_upvalues(emit_bytes(constant.k, OP_CLOSURE, constant.constant),
                          SubSeq(upvalues, 1, e.func.upvalue_count), 0),
            k5.comp_unit)

fun_declaration(k) ==
    LET global == parse_variable(k, "Expect function name.")
    IN define_variable(self_function(mark_initialized(global.k), "Function"),
                       global.constant)

method(k) ==
    LET k1 == consume(k, "Identifier", "Expect method name.")
        name_constant == identifier_constant(k1, k1.previous.lexeme)
        func_type == IF k1.previous.lexeme = "init" THEN "Initializer" ELSE "Method"
    IN emit_bytes(self_function(name_constant.k, func_type), OP_METHOD,
                  name_constant.constant)

\* The loop of class_declaration over the methods.
RECURSIVE methods_loop(_)
methods_loop(k) ==
    IF block_open(k) THEN methods_loop(self_method(k)) ELSE k

synthetic_token(lexeme) == Token("Identifier", lexeme, 0)

class_declaration(k) ==
    LET k1 == consume(k, "Identifier", "Expect class name.")
        class_name == k1.previous.lexeme
        name_constant == identifier_constant(k1, class_name)
        k2 == define_variable(
                emit_bytes(declare_variable(name_constant.k), OP_CLASS,
                           name_constant.constant),
                name_constant.constant)
        k3 == [k2 EXCEPT !.class_compiler = Append(@, [has_superclass |-> FALSE])]
        less == match_token(k3, "Less")
        s1 == variable(consume(less.k, "Identifier", "Expect superclass name."), FALSE)
        s2 == define_variable(add_local(begin_scope(s1), synthetic_token("super")), 0)
        s3 == emit_byte(self_named_variable(s2, class_name, FALSE), OP_INHERIT)
        k4 == IF less.matched
              THEN [s3 EXCEPT !.class_compiler[Len(s3.class_compiler)].has_superclass = TRUE]
              ELSE k3
        k5 == consume(self_named_variable(k4, class_name, FALSE), "LeftBrace",
                      "Expect '{' before class body.")
        k6 == emit_byte(consume(methods_loop(k5), "RightBrace",
                                "Expect '}' after class body."), OP_POP)
        k7 == IF k6.class_compiler[Len(k6.class_compiler)].has_superclass
              THEN end_scope(k6) ELSE k6
    IN IF less.matched /\ class_name = s1.previous.lexeme
       THEN error(s1, "A class can't inherit from itself.")
       ELSE [k7 EXCEPT !.class_compiler = SubSeq(@, 1, Len(@) - 1)]

StopKinds == {"Class", "Fun", "Var", "For", "If", "While", "Print", "Return"}

\* The place of `current` in the token stream: the number of tokens scan_token
\* has handed out, and one more than all of them once it has answered Eof.
token_index(k) ==
    IF k.current.kind = "Eof" THEN Len(k.scanner.tokens) + 1 ELSE k.scanner.pos

\* History: one pass through the body of a loop of the parser, with the place
\* of `current` when the body was entered and when it was left.
iterated(loop, before, after) ==
    [after EXCEPT !.iterations = @ \cup {[loop |-> loop,
                                          depth |-> before.comp_unit.scope_depth,
                                          entered |-> before.current.kind,
                                          from |-> token_index(before),
                                          to |-> token_index(after)]}]

\* declaration() is called from the loop of compile(), where no scope is open,
\* and from the loop of block(), which statement() and function() enter after
\* begin_scope().
declaration_loop(k) == IF k.comp_unit.scope_depth = 0 THEN "compile" ELSE "block"

\* The while loop of synchronize.
RECURSIVE synchronize_loop(_)
synchronize_loop(k) ==
    IF k.current.kind = "Eof" THEN k
    ELSE IF k.previous.kind = "Semicolon" THEN k
    ELSE IF k.current.kind \in StopKinds THEN k
    ELSE synchronize_loop(advance(k))

synchronize(k) ==
    LET k1 == [k EXCEPT !.panic_mode = FALSE]
        k2 == synchronize_loop(
                [k1 EXCEPT !.log = Append(@, Event(k1, "synchronize", ""))])
    IN iterated("synchronize", k1,
                [k2 EXCEPT !.log = Append(@, Event(k2, "synchronized", ""))])

declaration(k) ==
    LET class == match_token(k, "Class")
        fun == match_token(k, "Fun")
        var == match_token(k, "Var")
        k1 == CASE class.matched -> self_class_declaration(class.k)
                [] fun.matched -> self_fun_declaration(fun.k)
                [] var.matched -> self_var_declaration(var.k)
                [] OTHER -> self_statement(k)
    IN IF k1.panic_mode THEN iterated(declaration_loop(k), k, synchronize(k1))
       ELSE iterated(declaration_loop(k), k, k1)

\* The methods run on a Compiler that compile() has started.  The test
\* makes TLC evaluate k before it evaluates the method, which keeps its
\* evaluation stack shallow.
self_call(f, k, a) ==
    IF ~k.ran THEN k
    ELSE CASE f = "parse_precedence" -> parse_precedence(k, a[1])
           [] f = "parse_fn" -> parse_fn(a[1], k, a[2])
           [] f = "named_variable" -> named_variable(k, a[1], a[2])
           [] f = "argument_list" -> argument_list(k)
           [] f = "block" -> block(k)
           [] f = "function" -> function(k, a[1])
           [] f = "method" -> iterated("class_declaration", k, method(k))
           [] f = "class_declaration" -> class_declaration(k)
           [] f = "fun_declaration" -> fun_declaration(k)
           [] f = "var_declaration" -> var_declaration(k)
           [] f = "statement" -> statement(note_boundary(k))
           [] f = "declaration" -> declaration(note_boundary(k))
           [] f = "if_then" -> if_then(k)
           [] f = "if_else" -> if_else(k, a[1])
           [] f = "if_end" -> if_end(k, a[1])
           [] f = "while_body" -> while_body(k, a[1], a[2])
           [] f = "while_end" -> while_end(k, a[1], a[2], a[3])
           [] f = "for_condition" -> for_condition(k)
           [] f = "for_exit_jump" -> for_exit_jump(k, a[1])
           [] f = "for_increment" -> for_increment(k, a[1])
           [] f = "for_increment_end" -> for_increment_end(k, a[1], a[2])
           [] f = "for_body" -> for_body(k, a[1])
           [] f = "for_end" -> for_end(k, a[1])

\* A compile() that decides on panic_mode instead of had_error.
compile_result_panic_mode(k) ==
    IF k.panic_mode THEN [ok |-> FALSE, k |-> k]
    ELSE [ok |-> TRUE, k |-> end_comp_unit(k).k]

\* The end of compile(): Err or the function of end_comp_unit.
compile_result(k) ==
    IF k.had_error THEN [ok |-> FALSE, k |-> k]
    ELSE [ok |-> TRUE, k |-> end_comp_unit(k).k]

(***************************************************************************)
(* compiler::compile, step by step: the first advance(), one declaration() *)
(* per step of the while loop, and the result.                             *)
(***************************************************************************)
SeqsUpTo(S, n) == UNION {[1..m -> S] : m \in 0..n}

TokenSources ==
    {[kind |-> "tokens", tokens |-> [i \in DOMAIN kinds |-> make_token(kinds[i])]] :
        kinds \in SeqsUpTo(TokenKinds, MaxTokens)}

(***************************************************************************)
(* Programs: token sources given by their text.                            *)
(***************************************************************************)
T(kind) == make_token(kind)
Id(name) == Token("Identifier", name, 1)
Num(n) == Token("Number", ToString(n), 1)
StrLit(s) == Token("String", "\"" \o s \o "\"", 1)

TokenSource(family, n, tokens) ==
    [kind |-> "tokens", family |-> family, n |-> n, tokens |-> tokens]

RECURSIVE Flatten(_)
Flatten(seqs) == IF seqs = <<>> THEN <<>> ELSE Head(seqs) \o Flatten(Tail(seqs))

\* The declarations and braces that a block program is made of.
MaxItems == 4

Items == {"{", "}", "var x = 1;", "var x = 2;", "var y = 1;", "print x;"}

item_name(item) == IF item = "var y = 1;" THEN "y" ELSE "x"
item_value(item) == IF item = "var x = 2;" THEN 2 ELSE 1

item_tokens(item) ==
    CASE item = "{" -> <<T("LeftBrace")>>
      [] item = "}" -> <<T("RightBrace")>>
      [] item = "print x;" -> <<T("Print"), Id("x"), T("Semicolon")>>
      [] OTHER -> <<T("Var"), Id(item_name(item)), T("Equal"), Num(item_value(item)),
                    T("Semicolon")>>

\* The number of blocks open after the items; -1 once a `}` closed no block.
RECURSIVE open_blocks(_)
open_blocks(items) ==
    IF items = <<>> THEN 0
    ELSE LET before == open_blocks(SubSeq(items, 1, Len(items) - 1))
             last == items[Len(items)]
         IN IF before = -1 THEN -1
            ELSE IF last = "{" THEN before + 1
            ELSE IF last = "}" THEN before - 1
            ELSE before

\*   { var x = 1; { var x = 2; print x; } print x; }
ItemsShadow ==
    <<"{", "var x = 1;", "{", "var x = 2;", "print x;", "}", "print x;", "}">>

ItemSources ==
    {[kind |-> "tokens", family |-> "items", items |-> items,
      tokens |-> Flatten([i \in DOMAIN items |-> item_tokens(items[i])])] :
        items \in {s \in SeqsUpTo(Items, MaxItems) : open_blocks(s) # -1}
                    \cup {ItemsShadow}}

\* The counts on both sides of the limits of 255 and 256.
Boundary == (U8_MAX - 1)..(U8_MAX + 2)

\*   1; 1; ... 1;                       (n statements, n constants)
ProgramConstants(n) ==
    [i \in 1..(2 * n) |-> IF i % 2 = 1 THEN Num(1) ELSE T("Semicolon")]

\*   { var x1; var x2; ... var xn; }    (n declared locals and slot 0)
ProgramLocals(n) ==
    <<T("LeftBrace")>>
    \o [i \in 1..(3 * n) |->
            CASE i % 3 = 1 -> T("Var")
              [] i % 3 = 2 -> Id("x" \o ToString((i + 1) \div 3))
              [] OTHER -> T("Semicolon")]
    \o <<T("RightBrace")>>

\* The first n parameter names, or the first n numbers, between commas.
ParamList(n) ==
    [i \in 1..(IF n = 0 THEN 0 ELSE 2 * n - 1) |->
        IF i % 2 = 1 THEN Id("p" \o ToString((i + 1) \div 2)) ELSE T("Comma")]

ArgList(n) ==
    [i \in 1..(IF n = 0 THEN 0 ELSE 2 * n - 1) |->
        IF i % 2 = 1 THEN Num((i + 1) \div 2) ELSE T("Comma")]

\*   fun f(p1, p2, ... pn) {}
ProgramParams(n) ==
    <<T("Fun"), Id("f"), T("LeftParen")>> \o ParamList(n)
    \o <<T("RightParen"), T("LeftBrace"), T("RightBrace")>>

\* The numbers of parameters and of arguments of the calls tried.
MaxArgs == 2

ArityForms == {"function", "method", "bound method", "initializer", "super"}

\*   function:      fun f(P) {} f(A);
\*   method:        class K { m(P) {} } K().m(A);
\*   bound method:  class K { m(P) {} } var b = K().m; b(A);
\*   initializer:   class K { init(P) {} } K(A);
\*   super:         class A { m(P) {} } class B < A { t() { super.m(A); } } B().t();
\* with P the first `arity` parameter names and A the first `argc` numbers.
ProgramArity(form, arity, argc) ==
    LET P == <<T("LeftParen")>> \o ParamList(arity) \o <<T("RightParen")>>
        A == <<T("LeftParen")>> \o ArgList(argc) \o <<T("RightParen")>>
        body == <<T("LeftBrace"), T("RightBrace")>>
        class(name, m) ==
            <<T("Class"), Id(name), T("LeftBrace"), Id(m)>> \o P \o body
            \o <<T("RightBrace")>>
        new(name) == <<Id(name), T("LeftParen"), T("RightParen")>>
    IN CASE form = "function" ->
                <<T("Fun"), Id("f")>> \o P \o body \o <<Id("f")>> \o A
                \o <<T("Semicolon")>>
         [] form = "method" ->
                class("K", "m") \o new("K") \o <<T("Dot"), Id("m")>> \o A
                \o <<T("Semicolon")>>
         [] form = "bound method" ->
                class("K", "m")
                \o <<T("Var"), Id("b"), T("Equal")>> \o new("K")
                \o <<T("Dot"), Id("m"), T("Semicolon"), Id("b")>> \o A
                \o <<T("Semicolon")>>
         [] form = "initializer" ->
                class("K", "init") \o <<Id("K")>> \o A \o <<T("Semicolon")>>
         [] OTHER ->
                class("A", "m")
                \o <<T("Class"), Id("B"), T("Less"), Id("A"), T("LeftBrace"),
                     Id("t"), T("LeftParen"), T("RightParen"), T("LeftBrace"),
                     T("Super"), T("Dot"), Id("m")>> \o A
                \o <<T("Semicolon"), T("RightBrace"), T("RightBrace")>>
                \o new("B") \o <<T("Dot"), Id("t"), T("LeftParen"), T("RightParen"),
                                  T("Semicolon")>>

AritySources ==
    {[kind |-> "tokens", family |-> "arity", form |-> form, arity |-> arity,
      argc |-> argc, tokens |-> ProgramArity(form, arity, argc)] :
        form \in ArityForms, arity \in 0..MaxArgs, argc \in 0..MaxArgs}

\*   print "foo" + "bar" + "baz";
ProgramConcat ==
    <<T("Print"), StrLit("foo"), T("Plus"), StrLit("bar"), T("Plus"), StrLit("baz"),
      T("Semicolon")>>

\* The statements an initializer's body is made of.
MaxBody == 2

InitItems == {"return;", "this.x = 1;", "print this.x;"}

init_item_tokens(item) ==
    CASE item = "return;" -> <<T("Return"), T("Semicolon")>>
      [] item = "this.x = 1;" ->
            <<T("This"), T("Dot"), Id("x"), T("Equal"), Num(1), T("Semicolon")>>
      [] OTHER -> <<T("Print"), T("This"), T("Dot"), Id("x"), T("Semicolon")>>

\*   class K { init() { BODY } } var k = K(); print k;
ProgramInit(body) ==
    <<T("Class"), Id("K"), T("LeftBrace"), Id("init"), T("LeftParen"), T("RightParen"),
      T("LeftBrace")>>
    \o Flatten([i \in DOMAIN body |-> init_item_tokens(body[i])])
    \o <<T("RightBrace"), T("RightBrace"),
         T("Var"), Id("k"), T("Equal"), Id("K"), T("LeftParen"), T("RightParen"),
         T("Semicolon"), T("Print"), Id("k"), T("Semicolon")>>

InitSources ==
    {[kind |-> "tokens", family |-> "init", body |-> body, tokens |-> ProgramInit(body)] :
        body \in SeqsUpTo(InitItems, MaxBody)}

\*   class A { m() { print "A"; } } class B < A { m() { print "B"; } t() { super.m(); } } class C < B { m() { print "C"; } } C().t();
ProgramSuperInvoke ==
    <<T("Class"), Id("A"), T("LeftBrace"), Id("m"), T("LeftParen"), T("RightParen"),
      T("LeftBrace"), T("Print"), StrLit("A"), T("Semicolon"), T("RightBrace"),
      T("RightBrace"), T("Class"), Id("B"), T("Less"), Id("A"), T("LeftBrace"), Id("m"),
      T("LeftParen"), T("RightParen"), T("LeftBrace"), T("Print"), StrLit("B"),
      T("Semicolon"), T("RightBrace"), Id("t"), T("LeftParen"), T("RightParen"),
      T("LeftBrace"), T("Super"), T("Dot"), Id("m"), T("LeftParen"), T("RightParen"),
      T("Semicolon"), T("RightBrace"), T("RightBrace"), T("Class"), Id("C"), T("Less"),
      Id("B"), T("LeftBrace"), Id("m"), T("LeftParen"), T("RightParen"), T("LeftBrace"),
      T("Print"), StrLit("C"), T("Semicolon"), T("RightBrace"), T("RightBrace"), Id("C"),
      T("LeftParen"), T("RightParen"), T("Dot"), Id("t"), T("LeftParen"), T("RightParen"),
      T("Semicolon")>>

\*   class A { m() { print "A"; } } class B < A { m() { print "B"; } t() { var f = super.m; f(); } } class C < B { m() { print "C"; } } C().t();
ProgramGetSuper ==
    <<T("Class"), Id("A"), T("LeftBrace"), Id("m"), T("LeftParen"), T("RightParen"),
      T("LeftBrace"), T("Print"), StrLit("A"), T("Semicolon"), T("RightBrace"),
      T("RightBrace"), T("Class"), Id("B"), T("Less"), Id("A"), T("LeftBrace"), Id("m"),
      T("LeftParen"), T("RightParen"), T("LeftBrace"), T("Print"), StrLit("B"),
      T("Semicolon"), T("RightBrace"), Id("t"), T("LeftParen"), T("RightParen"),
      T("LeftBrace"), T("Var"), Id("f"), T("Equal"), T("Super"), T("Dot"), Id("m"),
      T("Semicolon"), Id("f"), T("LeftParen"), T("RightParen"), T("Semicolon"),
      T("RightBrace"), T("RightBrace"), T("Class"), Id("C"), T("Less"), Id("B"),
      T("LeftBrace"), Id("m"), T("LeftParen"), T("RightParen"), T("LeftBrace"),
      T("Print"), StrLit("C"), T("Semicolon"), T("RightBrace"), T("RightBrace"), Id("C"),
      T("LeftParen"), T("RightParen"), T("Dot"), Id("t"), T("LeftParen"), T("RightParen"),
      T("Semicolon")>>

\*   { var x = 1; fun g() { return x; } class A { m() { print "A"; } } class B < A { m() { print "B"; } t() { super.m(); } } B().t(); }
ProgramSuperBlock ==
    <<T("LeftBrace"), T("Var"), Id("x"), T("Equal"), Num(1), T("Semicolon"), T("Fun"),
      Id("g"), T("LeftParen"), T("RightParen"), T("LeftBrace"), T("Return"), Id("x"),
      T("Semicolon"), T("RightBrace"), T("Class"), Id("A"), T("LeftBrace"), Id("m"),
      T("LeftParen"), T("RightParen"), T("LeftBrace"), T("Print"), StrLit("A"),
      T("Semicolon"), T("RightBrace"), T("RightBrace"), T("Class"), Id("B"), T("Less"),
      Id("A"), T("LeftBrace"), Id("m"), T("LeftParen"), T("RightParen"), T("LeftBrace"),
      T("Print"), StrLit("B"), T("Semicolon"), T("RightBrace"), Id("t"), T("LeftParen"),
      T("RightParen"), T("LeftBrace"), T("Super"), T("Dot"), Id("m"), T("LeftParen"),
      T("RightParen"), T("Semicolon"), T("RightBrace"), T("RightBrace"), Id("B"),
      T("LeftParen"), T("RightParen"), T("Dot"), Id("t"), T("LeftParen"), T("RightParen"),
      T("Semicolon"), T("RightBrace")>>

\*   var g; { var x = 1; fun f() { return x; } g = f; x(); }
ProgramErrorOpen ==
    <<T("Var"), Id("g"), T("Semicolon"), T("LeftBrace"), T("Var"), Id("x"), T("Equal"),
      Num(1), T("Semicolon"), T("Fun"), Id("f"), T("LeftParen"), T("RightParen"),
      T("LeftBrace"), T("Return"), Id("x"), T("Semicolon"), T("RightBrace"), Id("g"),
      T("Equal"), Id("f"), T("Semicolon"), Id("x"), T("LeftParen"), T("RightParen"),
      T("Semicolon"), T("RightBrace")>>

\*   fun o() { var x = 1; fun g() { return x; } { var y = 2; fun h() { return y; } } return g; } print o()();
ProgramReturnStale ==
    <<T("Fun"), Id("o"), T("LeftParen"), T("RightParen"), T("LeftBrace"), T("Var"),
      Id("x"), T("Equal"), Num(1), T("Semicolon"), T("Fun"), Id("g"), T("LeftParen"),
      T("RightParen"), T("LeftBrace"), T("Return"), Id("x"), T("Semicolon"),
      T("RightBrace"), T("LeftBrace"), T("Var"), Id("y"), T("Equal"), Num(2),
      T("Semicolon"), T("Fun"), Id("h"), T("LeftParen"), T("RightParen"), T("LeftBrace"),
      T("Return"), Id("y"), T("Semicolon"), T("RightBrace"), T("RightBrace"), T("Return"),
      Id("g"), T("Semicolon"), T("RightBrace"), T("Print"), Id("o"), T("LeftParen"),
      T("RightParen"), T("LeftParen"), T("RightParen"), T("Semicolon")>>

\*   var A = 1; class B < A {}
ProgramInheritNumber ==
    <<T("Var"), Id("A"), T("Equal"), Num(1), T("Semicolon"), T("Class"), Id("B"),
      T("Less"), Id("A"), T("LeftBrace"), T("RightBrace")>>

\*   fun A() {} class B < A { m() {} }
ProgramInheritFunction ==
    <<T("Fun"), Id("A"), T("LeftParen"), T("RightParen"), T("LeftBrace"), T("RightBrace"),
      T("Class"), Id("B"), T("Less"), Id("A"), T("LeftBrace"), Id("m"), T("LeftParen"),
      T("RightParen"), T("LeftBrace"), T("RightBrace"), T("RightBrace")>>

\*   { var a = 1; fun f() { fun g() { print a; } g(); } f(); }
ProgramCaptureDeep ==
    <<T("LeftBrace"), T("Var"), Id("a"), T("Equal"), Num(1), T("Semicolon"), T("Fun"),
      Id("f"), T("LeftParen"), T("RightParen"), T("LeftBrace"), T("Fun"), Id("g"),
      T("LeftParen"), T("RightParen"), T("LeftBrace"), T("Print"), Id("a"),
      T("Semicolon"), T("RightBrace"), Id("g"), T("LeftParen"), T("RightParen"),
      T("Semicolon"), T("RightBrace"), Id("f"), T("LeftParen"), T("RightParen"),
      T("Semicolon"), T("RightBrace")>>

Programs ==
    [concat |-> ProgramConcat, super_invoke |-> ProgramSuperInvoke,
     get_super |-> ProgramGetSuper, super_block |-> ProgramSuperBlock,
     error_open |-> ProgramErrorOpen, return_stale |-> ProgramReturnStale,
     inherit_number |-> ProgramInheritNumber,
     inherit_function |-> ProgramInheritFunction,
     capture_deep |-> ProgramCaptureDeep]

ProgramSources ==
    {[kind |-> "tokens", family |-> "program", name |-> name, tokens |-> Programs[name]] :
        name \in DOMAIN Programs}

\* Programs that capture the locals of one block in a chosen order:
\*   { var a = 1; var b = 2; var c = 3; fun f() { <f>; ... } fun g() { <g>; ... } }
\* f and g are the sequences of the variables named in the two bodies.
MaxCaptured == 3
MaxCapturedAgain == 1

CaptureVars == {"a", "b", "c"}

CaptureOrders(n) ==
    {order \in SeqsUpTo(CaptureVars, n) :
        \A i, j \in DOMAIN order : i # j => order[i] # order[j]}

CaptureFun(name, order) ==
    <<T("Fun"), Id(name), T("LeftParen"), T("RightParen"), T("LeftBrace")>>
    \o Flatten([i \in DOMAIN order |-> <<Id(order[i]), T("Semicolon")>>])
    \o <<T("RightBrace")>>

ProgramCapture(f, g) ==
    <<T("LeftBrace"),
      T("Var"), Id("a"), T("Equal"), Num(1), T("Semicolon"),
      T("Var"), Id("b"), T("Equal"), Num(2), T("Semicolon"),
      T("Var"), Id("c"), T("Equal"), Num(3), T("Semicolon")>>
    \o CaptureFun("f", f) \o CaptureFun("g", g) \o <<T("RightBrace")>>

CaptureSources ==
    {[kind |-> "tokens", family |-> "capture", f |-> f, g |-> g,
      tokens |-> ProgramCapture(f, g)] :
        f \in CaptureOrders(MaxCaptured) \ {<<>>}, g \in CaptureOrders(MaxCapturedAgain)}

\* Programs with one loop that counts n (or i) up to a limit:
\*   while:          while (n < L) n = n + 1;
\*   for:            for (; n < L;) n = n + 1;
\*   for_increment:  for (; n < L; n = n + 1) print n;
\*   for_var:        for (var i = n; i < L; i = i + 1) print i;
\*   for_ever:       for (;;) if (n >= L) return; else n = n + 1;
\*   for_ever_increment:  for (;; n = n + 1) if (n >= L) return;
\* placed in a script, a block or a function body, as its first statement
\* or after another one:
\*   script:    [var n = 0;] LOOP
\*   block:     { var n = 0; LOOP }
\*   function:  fun f(n) { [print n;] LOOP } f(0);
\* and compiled with or without overflow checks.
MaxIterations == 2

LoopForms == {"while", "for", "for_increment", "for_var", "for_ever", "for_ever_increment"}
LoopPlaces == {"script", "block", "function"}

LoopStatement(form, limit) ==
    LET count == <<Id("n"), T("Equal"), Id("n"), T("Plus"), Num(1)>>
        more == <<Id("n"), T("Less"), Num(limit)>>
        leave == <<T("If"), T("LeftParen"), Id("n"), T("GreaterEqual"), Num(limit),
                   T("RightParen"), T("Return"), T("Semicolon")>>
    IN CASE form = "while" ->
                <<T("While"), T("LeftParen")>> \o more \o <<T("RightParen")>>
                \o count \o <<T("Semicolon")>>
         [] form = "for" ->
                <<T("For"), T("LeftParen"), T("Semicolon")>> \o more
                \o <<T("Semicolon"), T("RightParen")>> \o count \o <<T("Semicolon")>>
         [] form = "for_increment" ->
                <<T("For"), T("LeftParen"), T("Semicolon")>> \o more
                \o <<T("Semicolon")>> \o count
                \o <<T("RightParen"), T("Print"), Id("n"), T("Semicolon")>>
         [] form = "for_var" ->
                <<T("For"), T("LeftParen"), T("Var"), Id("i"), T("Equal"), Id("n"),
                  T("Semicolon"), Id("i"), T("Less"), Num(limit), T("Semicolon"),
                  Id("i"), T("Equal"), Id("i"), T("Plus"), Num(1), T("RightParen"),
                  T("Print"), Id("i"), T("Semicolon")>>
         [] form = "for_ever" ->
                <<T("For"), T("LeftParen"), T("Semicolon"), T("Semicolon"),
                  T("RightParen")>> \o leave \o <<T("Else")>> \o count
                \o <<T("Semicolon")>>
         [] form = "for_ever_increment" ->
                <<T("For"), T("LeftParen"), T("Semicolon"), T("Semicolon")>> \o count
                \o <<T("RightParen")>> \o leave

ProgramLoop(place, first, form, limit) ==
    LET loop == LoopStatement(form, limit)
        var_n == <<T("Var"), Id("n"), T("Equal"), Num(0), T("Semicolon")>>
    IN CASE place = "script" -> (IF first THEN <<>> ELSE var_n) \o loop
         [] place = "block" -> <<T("LeftBrace")>> \o var_n \o loop \o <<T("RightBrace")>>
         [] place = "function" ->
                <<T("Fun"), Id("f"), T("LeftParen"), Id("n"), T("RightParen"),
                  T("LeftBrace")>>
                \o (IF first THEN <<>> ELSE <<T("Print"), Id("n"), T("Semicolon")>>)
                \o loop
                \o <<T("RightBrace"), Id("f"), T("LeftParen"), Num(0), T("RightParen"),
                     T("Semicolon")>>

LoopSources ==
    {[kind |-> "tokens", family |-> "loop", place |-> place, first |-> first,
      form |-> form, limit |-> limit, overflow_checks |-> overflow_checks,
      tokens |-> ProgramLoop(place, first, form, limit)] :
        place \in LoopPlaces, first \in BOOLEAN, form \in LoopForms,
        limit \in 0..MaxIterations, overflow_checks \in BOOLEAN}

\* Programs that print the value of one operator applied to literals:
\*   print <left> <op> <right>;      print <op> <right>;
ExprLiterals ==
    {T("Nil"), T("True"), T("False"), Num(0), Num(1), Num(2), StrLit("A")}

BinaryOperators ==
    {"BangEqual", "EqualEqual", "Greater", "GreaterEqual", "Less", "LessEqual",
     "Plus", "Minus", "Star", "Slash"}

UnaryOperators == {"Minus", "Bang"}

ProgramBinary(left, op, right) == <<T("Print"), left, T(op), right, T("Semicolon")>>
ProgramUnary(op, right) == <<T("Print"), T(op), right, T("Semicolon")>>

ExprSources ==
    {[kind |-> "tokens", family |-> "expr", left |-> <<left>>, op |-> op,
      right |-> right, tokens |-> ProgramBinary(left, op, right)] :
        left \in ExprLiterals, op \in BinaryOperators, right \in ExprLiterals}
    \cup {[kind |-> "tokens", family |-> "expr", left |-> <<>>, op |-> op,
           right |-> right, tokens |-> ProgramUnary(op, right)] :
            op \in UnaryOperators, right \in ExprLiterals}

\*   print this;
ProgramThisOutside ==
    <<T("Print"), T("This"), T("Semicolon")>>

\*   print super.m;
ProgramSuperOutside ==
    <<T("Print"), T("Super"), T("Dot"), Id("m"), T("Semicolon")>>

\*   class A { m() { super.m; } }
ProgramSuperNoSuperclass ==
    <<T("Class"), Id("A"), T("LeftBrace"), Id("m"), T("LeftParen"), T("RightParen"),
      T("LeftBrace"), T("Super"), T("Dot"), Id("m"), T("Semicolon"), T("RightBrace"),
      T("RightBrace")>>

\*   class A { m() { print this; } } print this;
ProgramThisAfterClass ==
    <<T("Class"), Id("A"), T("LeftBrace"), Id("m"), T("LeftParen"), T("RightParen"),
      T("LeftBrace"), T("Print"), T("This"), T("Semicolon"), T("RightBrace"),
      T("RightBrace"), T("Print"), T("This"), T("Semicolon")>>

\*   class A {} class B < A { m() { class C { n() { super.n; } } } }
ProgramSuperInNested ==
    <<T("Class"), Id("A"), T("LeftBrace"), T("RightBrace"), T("Class"), Id("B"),
      T("Less"), Id("A"), T("LeftBrace"), Id("m"), T("LeftParen"), T("RightParen"),
      T("LeftBrace"), T("Class"), Id("C"), T("LeftBrace"), Id("n"), T("LeftParen"),
      T("RightParen"), T("LeftBrace"), T("Super"), T("Dot"), Id("n"), T("Semicolon"),
      T("RightBrace"), T("RightBrace"), T("RightBrace"), T("RightBrace")>>

\*   class A {} class B < A { m() { class C { n() { this; } } super.m; } }
ProgramSuperAfterNested ==
    <<T("Class"), Id("A"), T("LeftBrace"), T("RightBrace"), T("Class"), Id("B"),
      T("Less"), Id("A"), T("LeftBrace"), Id("m"), T("LeftParen"), T("RightParen"),
      T("LeftBrace"), T("Class"), Id("C"), T("LeftBrace"), Id("n"), T("LeftParen"),
      T("RightParen"), T("LeftBrace"), T("This"), T("Semicolon"), T("RightBrace"),
      T("RightBrace"), T("Super"), T("Dot"), Id("m"), T("Semicolon"), T("RightBrace"),
      T("RightBrace")>>

\*   class A < A {} print this;
ProgramThisAfterSelfInherit ==
    <<T("Class"), Id("A"), T("Less"), Id("A"), T("LeftBrace"), T("RightBrace"),
      T("Print"), T("This"), T("Semicolon")>>

\*   class A {} class B < A { m() { class C < C {} print super.m; } }
ProgramSuperAfterSelfInherit ==
    <<T("Class"), Id("A"), T("LeftBrace"), T("RightBrace"), T("Class"), Id("B"),
      T("Less"), Id("A"), T("LeftBrace"), Id("m"), T("LeftParen"), T("RightParen"),
      T("LeftBrace"), T("Class"), Id("C"), T("Less"), Id("C"), T("LeftBrace"),
      T("RightBrace"), T("Print"), T("Super"), T("Dot"), Id("m"), T("Semicolon"),
      T("RightBrace"), T("RightBrace")>>

\* What the compiler is to report for `this` outside a class, for `super`
\* outside a class and for `super` in a class without a superclass.
ThisOutsideClass == "[line 1] Error at 'this': Cannot use 'this' outside of a class."
SuperOutsideClass == "[line 1] Error at 'super': Cannot use 'super' outside of a class."
SuperWithoutSuperclass ==
    "[line 1] Error at 'super': Cannot use 'super' in a class with no superclass."

\* Programs that use `this` and `super` inside and outside of classes, each
\* with the errors its class declarations call for: the innermost class
\* declaration around the use decides.
ContextPrograms ==
    [this_outside |-> [tokens |-> ProgramThisOutside, errors |-> <<ThisOutsideClass>>],
     super_outside |-> [tokens |-> ProgramSuperOutside, errors |-> <<SuperOutsideClass>>],
     super_no_superclass |->
        [tokens |-> ProgramSuperNoSuperclass, errors |-> <<SuperWithoutSuperclass>>],
     this_after_class |->
        [tokens |-> ProgramThisAfterClass, errors |-> <<ThisOutsideClass>>],
     super_in_nested |->
        [tokens |-> ProgramSuperInNested, errors |-> <<SuperWithoutSuperclass>>],
     super_after_nested |-> [tokens |-> ProgramSuperAfterNested, errors |-> <<>>],
     this_after_self_inherit |->
        [tokens |-> ProgramThisAfterSelfInherit, errors |-> <<ThisOutsideClass>>],
     super_after_self_inherit |->
        [tokens |-> ProgramSuperAfterSelfInherit, errors |-> <<>>]]

MaxTail == 3

RecoveryKinds ==
    {"Identifier", "LeftParen", "RightParen", "LeftBrace", "RightBrace", "Semicolon",
     "Var", "Number", "Error"}

\* The openings of a class body, of a block and of a parameter list.
RecoveryOpenings ==
    [class |-> <<"Class", "Identifier", "LeftBrace">>,
     block |-> <<"LeftBrace">>,
     fun |-> <<"Fun", "Identifier", "LeftParen">>]

\* Token sequences that open a class body, a block or a function and go on
\* with any tokens at all, most of them syntax errors.
RecoverySources ==
    {[kind |-> "tokens", family |-> "recovery", opening |-> opening,
      tokens |-> [i \in 1..(Len(RecoveryOpenings[opening]) + Len(tail)) |->
                    make_token(IF i <= Len(RecoveryOpenings[opening])
                               THEN RecoveryOpenings[opening][i]
                               ELSE tail[i - Len(RecoveryOpenings[opening])])]] :
        opening \in DOMAIN RecoveryOpenings, tail \in SeqsUpTo(RecoveryKinds, MaxTail)}

ContextSources ==
    {[kind |-> "tokens", family |-> "context", name |-> name,
      tokens |-> ContextPrograms[name].tokens, errors |-> ContextPrograms[name].errors] :
        name \in DOMAIN ContextPrograms}

\*   var a = 1;
LineDefine ==
    <<T("Var"), Id("a"), T("Equal"), Num(1), T("Semicolon")>>

\*   print a;
LinePrint ==
    <<T("Print"), Id("a"), T("Semicolon")>>

\*   var a = 1; a = 2; nope = 3;
LineAssignThenFail ==
    <<T("Var"), Id("a"), T("Equal"), Num(1), T("Semicolon"), Id("a"), T("Equal"), Num(2),
      T("Semicolon"), Id("nope"), T("Equal"), Num(3), T("Semicolon")>>

\*   var a = ;
LineSyntaxError ==
    <<T("Var"), Id("a"), T("Equal"), T("Semicolon")>>

\*   print clock;
LineClock ==
    <<T("Print"), Id("clock"), T("Semicolon")>>

\*   fun f() { return 1; } var a = f();
LineClosure ==
    <<T("Fun"), Id("f"), T("LeftParen"), T("RightParen"), T("LeftBrace"), T("Return"),
      Num(1), T("Semicolon"), T("RightBrace"), T("Var"), Id("a"), T("Equal"), Id("f"),
      T("LeftParen"), T("RightParen"), T("Semicolon")>>

\* Sessions of the REPL: the lines typed, one interpret call for each.
ReplSessions ==
    [define |-> <<LineDefine, LinePrint>>,
     assign_then_fail |-> <<LineAssignThenFail, LinePrint>>,
     syntax_error |-> <<LineSyntaxError, LineClock, LinePrint>>,
     closure |-> <<LineClosure, LinePrint, LineClock>>]

ReplSources ==
    {[kind |-> "tokens", family |-> "repl", name |-> name,
      tokens |-> ReplSessions[name][1], lines |-> ReplSessions[name]] :
        name \in DOMAIN ReplSessions}

\* Programs that show which operands of `and` and `or` are evaluated:
\*   fun f(v) { print v; return v; } print f(LEFT) OP f(RIGHT);
LogicOperands == {T("Nil"), T("False"), T("True"), Num(0), StrLit("A")}

LogicOperators == {"And", "Or"}

ProgramLogic(left, op, right) ==
    <<T("Fun"), Id("f"), T("LeftParen"), Id("v"), T("RightParen"), T("LeftBrace"),
      T("Print"), Id("v"), T("Semicolon"), T("Return"), Id("v"), T("Semicolon"),
      T("RightBrace"),
      T("Print"), Id("f"), T("LeftParen"), left, T("RightParen"), T(op),
      Id("f"), T("LeftParen"), right, T("RightParen"), T("Semicolon")>>

LogicSources ==
    {[kind |-> "tokens", family |-> "logic", left |-> left, op |-> op,
      right |-> right, tokens |-> ProgramLogic(left, op, right)] :
        left \in LogicOperands, op \in LogicOperators, right \in LogicOperands}

\* Programs that invoke a property of an instance:
\*   class A { m(x) { print 1; } } var a = A(); var b = A(); fun f(x) { print 2; }
\*   <field> a.<name>(<args>);
\* with <field> an assignment to the field m of a, or nothing, and <args> the
\* first argc numbers.
InvokeFields == {"", "a.m = f;", "a.m = 1;", "a.m = clock;", "a.m = b.m;"}
InvokeNames == {"m", "n"}

InvokeField(field) ==
    CASE field = "" -> <<>>
      [] field = "a.m = f;" ->
            <<Id("a"), T("Dot"), Id("m"), T("Equal"), Id("f"), T("Semicolon")>>
      [] field = "a.m = 1;" ->
            <<Id("a"), T("Dot"), Id("m"), T("Equal"), Num(1), T("Semicolon")>>
      [] field = "a.m = clock;" ->
            <<Id("a"), T("Dot"), Id("m"), T("Equal"), Id("clock"), T("Semicolon")>>
      [] field = "a.m = b.m;" ->
            <<Id("a"), T("Dot"), Id("m"), T("Equal"), Id("b"), T("Dot"), Id("m"),
              T("Semicolon")>>

ProgramInvoke(field, name, argc) ==
    <<T("Class"), Id("A"), T("LeftBrace"), Id("m"), T("LeftParen"), Id("x"),
      T("RightParen"), T("LeftBrace"), T("Print"), Num(1), T("Semicolon"),
      T("RightBrace"), T("RightBrace"),
      T("Var"), Id("a"), T("Equal"), Id("A"), T("LeftParen"), T("RightParen"),
      T("Semicolon"),
      T("Var"), Id("b"), T("Equal"), Id("A"), T("LeftParen"), T("RightParen"),
      T("Semicolon"),
      T("Fun"), Id("f"), T("LeftParen"), Id("x"), T("RightParen"), T("LeftBrace"),
      T("Print"), Num(2), T("Semicolon"), T("RightBrace")>>
    \o InvokeField(field)
    \o <<Id("a"), T("Dot"), Id(name), T("LeftParen")>> \o ArgList(argc)
    \o <<T("RightParen"), T("Semicolon")>>

InvokeSources ==
    {[kind |-> "tokens", family |-> "invoke", field |-> field, name |-> name,
      argc |-> argc, tokens |-> ProgramInvoke(field, name, argc)] :
        field \in InvokeFields, name \in InvokeNames, argc \in 0..MaxArgs}

BoundarySources ==
    {TokenSource("constants", n, ProgramConstants(n)) : n \in Boundary}
    \cup {TokenSource("locals", n, ProgramLocals(n)) : n \in Boundary}
    \cup {TokenSource("params", n, ProgramParams(n)) : n \in Boundary}

(***************************************************************************)
(* The scanner (scanner.rs) on the characters of a source text.  A         *)
(* character is a string of length one; NUL is what peek returns at the    *)
(* end of the input, equal to no character of a text.                      *)
(***************************************************************************)
NUL == "NUL"

Scanner(chars) ==
    [source_chars |-> chars, start_pos |-> 0, current_pos |-> 0, line |-> 1]

is_digit(c) == c \in {"0", "1", "2", "3", "4", "5", "6", "7", "8", "9"}

is_alpha(c) ==
    c \in {"a", "b", "c", "d", "e", "f", "g", "h", "i", "j", "k", "l", "m",
           "n", "o", "p", "q", "r", "s", "t", "u", "v", "w", "x", "y", "z",
           "A", "B", "C", "D", "E", "F", "G", "H", "I", "J", "K", "L", "M",
           "N", "O", "P", "Q", "R", "S", "T", "U", "V", "W", "X", "Y", "Z", "_"}

is_alpha_numeric(c) == is_alpha(c) \/ is_digit(c)

is_at_end_past(s) == s.current_pos > Len(s.source_chars)

is_at_end(s) == s.current_pos >= Len(s.source_chars)

\* source_chars[start_pos..current_pos] collected into a String.
RECURSIVE collect(_, _, _)
collect(chars, from, to) ==
    IF from >= to \/ from >= Len(chars) THEN ""
    ELSE chars[from + 1] \o collect(chars, from + 1, to)

scanner_make_token(s, kind) ==
    Token(kind, collect(s.source_chars, s.start_pos, s.current_pos), s.line)

error_token(s, message) == Token("Error", message, s.line)

scanner_peek(s) ==
    IF s.current_pos >= Len(s.source_chars) THEN NUL
    ELSE s.source_chars[s.current_pos + 1]

scanner_peek_next(s) ==
    IF s.current_pos + 1 >= Len(s.source_chars) THEN NUL
    ELSE s.source_chars[s.current_pos + 2]

scanner_advance(s) == [s EXCEPT !.current_pos = @ + 1]

match_char(s, expected) ==
    IF is_at_end(s) \/ scanner_peek(s) # expected THEN [s |-> s, matched |-> FALSE]
    ELSE [s |-> scanner_advance(s), matched |-> TRUE]

\* The loop of a comment: up to the newline or the end of the input.
RECURSIVE skip_comment(_)
skip_comment(s) ==
    IF scanner_peek(s) # "\n" /\ ~is_at_end(s) THEN skip_comment(scanner_advance(s))
    ELSE s

RECURSIVE skip_whitespace(_)
skip_whitespace(s) ==
    IF is_at_end(s) THEN s
    ELSE LET c == scanner_peek(s)
         IN IF c \in {" ", "\r", "\t"} THEN skip_whitespace(scanner_advance(s))
            ELSE IF c = "\n"
            THEN skip_whitespace(scanner_advance([s EXCEPT !.line = @ + 1]))
            ELSE IF c = "/" /\ scanner_peek_next(s) = "/"
            THEN skip_whitespace(skip_comment(s))
            ELSE s

\* The loop of string(): up to the closing quote or the end of the input.
RECURSIVE string_body(_)
string_body(s) ==
    IF scanner_peek(s) # "\"" /\ ~is_at_end(s)
    THEN string_body(scanner_advance(
            IF scanner_peek(s) = "\n" THEN [s EXCEPT !.line = @ + 1] ELSE s))
    ELSE s

scanner_string(s) ==
    LET s1 == string_body(s)
    IN IF is_at_end(s1) THEN [s |-> s1, token |-> error_token(s1, "Unterminated string.")]
       ELSE [s |-> scanner_advance(s1),
             token |-> scanner_make_token(scanner_advance(s1), "String")]

RECURSIVE digits(_)
digits(s) == IF is_digit(scanner_peek(s)) THEN digits(scanner_advance(s)) ELSE s

scanner_number(s) ==
    LET s1 == digits(s)
        s2 == IF scanner_peek(s1) = "." /\ is_digit(scanner_peek_next(s1))
              THEN digits(scanner_advance(s1))
              ELSE s1
    IN [s |-> s2, token |-> scanner_make_token(s2, "Number")]

identifier_type(lexeme) ==
    CASE lexeme = "and" -> "And"
      [] lexeme = "class" -> "Class"
      [] lexeme = "else" -> "Else"
      [] lexeme = "false" -> "False"
      [] lexeme = "for" -> "For"
      [] lexeme = "fun" -> "Fun"
      [] lexeme = "if" -> "If"
      [] lexeme = "nil" -> "Nil"
      [] lexeme = "or" -> "Or"
      [] lexeme = "print" -> "Print"
      [] lexeme = "return" -> "Return"
      [] lexeme = "super" -> "Super"
      [] lexeme = "this" -> "This"
      [] lexeme = "true" -> "True"
      [] lexeme = "var" -> "Var"
      [] lexeme = "while" -> "While"
      [] OTHER -> "Identifier"

RECURSIVE identifier_body(_)
identifier_body(s) ==
    IF is_alpha_numeric(scanner_peek(s)) THEN identifier_body(scanner_advance(s)) ELSE s

scanner_identifier(s) ==
    LET s1 == identifier_body(s)
        lexeme == collect(s1.source_chars, s1.start_pos, s1.current_pos)
    IN [s |-> s1, token |-> scanner_make_token(s1, identifier_type(lexeme))]

\* A one-character token, or the two-character one when `=` follows.
one_or_two(s, one, two) ==
    LET m == match_char(s, "=")
    IN [s |-> m.s, token |-> scanner_make_token(m.s, IF m.matched THEN two ELSE one)]

single(c) ==
    CASE c = "(" -> "LeftParen"
      [] c = ")" -> "RightParen"
      [] c = "{" -> "LeftBrace"
      [] c = "}" -> "RightBrace"
      [] c = "," -> "Comma"
      [] c = "." -> "Dot"
      [] c = "-" -> "Minus"
      [] c = "+" -> "Plus"
      [] c = "/" -> "Slash"
      [] c = ";" -> "Semicolon"
      [] c = "*" -> "Star"
      [] OTHER -> ""

\* Scanner::scan_token: the scanner after the call and the token returned.
scanner_scan_token(s0) ==
    LET s1 == skip_whitespace(s0)
        s2 == [s1 EXCEPT !.start_pos = s1.current_pos]
        c == scanner_peek(s2)
        s == scanner_advance(s2)
    IN IF is_at_end(s2) THEN [s |-> s2, token |-> scanner_make_token(s2, "Eof")]
       ELSE IF is_digit(c) THEN scanner_number(s)
       ELSE IF is_alpha(c) THEN scanner_identifier(s)
       ELSE IF single(c) # "" THEN [s |-> s, token |-> scanner_make_token(s, single(c))]
       ELSE IF c = "!" THEN one_or_two(s, "Bang", "BangEqual")
       ELSE IF c = "=" THEN one_or_two(s, "Equal", "EqualEqual")
       ELSE IF c = "<" THEN one_or_two(s, "Less", "LessEqual")
       ELSE IF c = ">" THEN one_or_two(s, "Greater", "GreaterEqual")
       ELSE IF c = "\"" THEN scanner_string(s)
       ELSE [s |-> s, token |-> error_token(s, "Unexpected character.")]

\* The source texts given to the scanner: every text of up to MaxChars
\* characters of the alphabet.
MaxChars == 4

Alphabet == {"\n", "/", "\"", "1", ".", "a", "="}

TextSources ==
    {[kind |-> "text", chars |-> chars] : chars \in SeqsUpTo(Alphabet, MaxChars)}

\* The calls of scan_token made after the first Eof.
MaxEofCalls == 1

\* The compiler's state after a step; its diagnostics go to stderr.  A
\* panic in the step unwinds through compile() and interpret(), with the
\* diagnostics written before it.
CommitCompile(k, next_pc, next_res) ==
    /\ comp' = [k EXCEPT !.err = <<>>]
    /\ err' = err \o (IF comp'.panic = "" THEN k.err
                      ELSE Append(comp'.panic_err,
                                  "thread 'main' panicked: " \o comp'.panic))
    /\ pc' = IF comp'.panic = "" THEN next_pc ELSE "returned"
    /\ res' = IF comp'.panic = "" THEN next_res ELSE "panic"
    /\ UNCHANGED <<source, exit_code, frames, stack, open_upvalues, heap, globals,
                   out, born, stamp, called, declared, scanner, scans, lines_read>>

\* compile() of a program given by its chunk.
CompileProgram ==
    /\ pc = "start"
    /\ source.kind = "chunk"
    /\ CommitCompile([comp EXCEPT !.ran = TRUE,
                                  !.comp_unit.function = compiled(source)],
                     "compiled", res)

CompileBegin ==
    /\ pc = "start"
    /\ source.kind = "tokens"
    /\ IF comp.ran THEN CommitCompile(comp, "returned", "CompileError")
       ELSE CommitCompile(advance([comp EXCEPT !.ran = TRUE]), "compile", res)

DeclarationAtEof ==
    /\ pc = "compile"
    /\ CommitCompile(self_declaration(comp), "compile", res)

Declaration ==
    /\ pc = "compile"
    /\ ~check(comp, "Eof")
    /\ CommitCompile(self_declaration(comp), "compile", res)

CompileEnd ==
    /\ pc = "compile"
    /\ check(comp, "Eof")
    /\ LET r == compile_result(match_token(comp, "Eof").k)
       IN IF r.ok THEN CommitCompile(r.k, "compiled", res)
          ELSE CommitCompile(r.k, "returned", "CompileError")

\* One call of scan_token on the text, as in the loop of tests::scan; the
\* compiler goes on calling after the first Eof, here MaxEofCalls times.
ScanToken ==
    /\ source.kind = "text"
    /\ Cardinality({i \in DOMAIN scans : scans[i].kind = "Eof"}) <= MaxEofCalls
    /\ LET r == scanner_scan_token(scanner)
       IN /\ scanner' = r.s
          /\ scans' = Append(scans, r.token)
    /\ UNCHANGED <<source, pc, res, exit_code, comp, frames, stack, open_upvalues,
                   heap, globals, out, err, born, stamp, called, declared,
                   lines_read>>

\* The build's overflow-checks setting; it is a choice for the sources
\* with loops, the only ones whose compilation it bears on.
overflow_checks(src) ==
    IF "overflow_checks" \in DOMAIN src THEN src.overflow_checks ELSE TRUE

\* What println!("{}", e) writes for the error interpret() returned: the
\* anyhow message of compile(), or the Debug form of the LoxError, whose
\* message runtime_error() printed above the trace of the frames.
display_error ==
    IF res = "CompileError" THEN "Had compilation errors"
    ELSE "LoxError { kind: RuntimeError, message: \""
            \o err[Len(err) - Len(frames)] \o "\" }"

\* repl() that makes a new VM for every line.
ReplReadNewVM ==
    /\ pc = "returned"
    /\ res \in {"Ok", "CompileError", "RuntimeError"}
    /\ lines_read > 0
    /\ lines_read < Len(source.lines)
    /\ lines_read' = lines_read + 1
    /\ out' = IF res = "Ok" THEN out ELSE Append(out, display_error)
    /\ comp' = [Compiler(source.lines[lines_read + 1])
                    EXCEPT !.overflow_checks = overflow_checks(source)]
    /\ pc' = "start"
    /\ res' = "none"
    /\ frames' = <<>>
    /\ stack' = <<>>
    /\ open_upvalues' = <<>>
    /\ born' = <<>>
    /\ globals' = MapInsert(EmptyMap, "clock", Obj(1))
    /\ UNCHANGED <<source, exit_code, heap, err, stamp, called, declared,
                   scanner, scans>>

\* One turn of repl()'s loop after interpret() has returned: the error is
\* printed, the RunCtx of the call is gone, the next line is read and
\* interpret() is called on it with a new Compiler.  The VM stays.
ReplRead ==
    /\ pc = "returned"
    /\ res \in {"Ok", "CompileError", "RuntimeError"}
    /\ lines_read > 0
    /\ lines_read < Len(source.lines)
    /\ lines_read' = lines_read + 1
    /\ out' = IF res = "Ok" THEN out ELSE Append(out, display_error)
    /\ comp' = [Compiler(source.lines[lines_read + 1])
                    EXCEPT !.overflow_checks = overflow_checks(source)]
    /\ pc' = "start"
    /\ res' = "none"
    /\ frames' = <<>>
    /\ stack' = <<>>
    /\ open_upvalues' = <<>>
    /\ born' = <<>>
    /\ UNCHANGED <<source, exit_code, heap, globals, err, stamp, called, declared,
                   scanner, scans>>

\* VM::new and Compiler::new for the source given to the process.
Init ==
    /\ source \in ChunkSources \cup TokenSources \cup ItemSources \cup BoundarySources
                    \cup AritySources \cup ProgramSources \cup InitSources
                    \cup CaptureSources \cup InvokeSources \cup LoopSources
                    \cup ExprSources \cup LogicSources \cup ContextSources
                    \cup ReplSources
                    \cup RecoverySources
                    \cup TextSources
    /\ pc = "start"
    /\ res = "none"
    /\ exit_code = -1
    /\ comp = [Compiler(IF source.kind = "tokens" THEN source.tokens ELSE <<>>)
                EXCEPT !.overflow_checks = overflow_checks(source)]
    /\ frames = <<>>
    /\ stack = <<>>
    /\ open_upvalues = <<>>
    /\ heap = <<NativeFunction("clock_native")>>
    /\ globals = MapInsert(EmptyMap, "clock", Obj(1))
    /\ out = <<>>
    /\ err = <<>>
    /\ born = <<>>
    /\ stamp = 0
    /\ called = [closure |-> 0, arg_count |-> 0, serial |-> 0]
    /\ declared = [superclass |-> EmptyMap, method_of |-> EmptyMap]
    /\ scanner = Scanner(IF source.kind = "text" THEN source.chars ELSE <<>>)
    /\ scans = <<>>
    /\ lines_read = IF "lines" \in DOMAIN source THEN 1 ELSE 0

Next ==
    \/ CompileProgram
    \/ CompileBegin
    \/ Declaration
    \/ CompileEnd
    \/ ScanToken
    \/ Interpret
    \/ OpConstant
    \/ OpNil
    \/ OpTrue
    \/ OpFalse
    \/ OpPop
    \/ OpGetLocal
    \/ OpSetLocal
    \/ OpGetGlobal
    \/ OpDefineGlobal
    \/ OpSetGlobal
    \/ OpGetProperty
    \/ OpSetProperty
    \/ OpGetUpvalue
    \/ OpSetUpvalue
    \/ OpEqual
    \/ OpAdd
    \/ OpPrint
    \/ OpGreater
    \/ OpLess
    \/ OpSubtract
    \/ OpMultiply
    \/ OpDivide
    \/ OpNegate
    \/ OpNot
    \/ OpJump
    \/ OpJumpIfFalse
    \/ OpLoop
    \/ OpCall
    \/ OpClosure
    \/ OpCloseUpvalue
    \/ OpReturn
    \/ OpClass
    \/ OpInherit
    \/ OpMethod
    \/ OpGetSuper
    \/ OpInvoke
    \/ OpSuperInvoke
    \/ ReplRead
    \/ Exit

Spec == Init /\ [][Next]_vars

(***************************************************************************)
(* Properties.                                                             *)
(***************************************************************************)
ClosureRefs == {r \in 1..Len(heap) : heap[r].kind = "Closure"}

\* The constant operand of the instruction about to be executed.
NextConstant == read_constant(Fetched.c).value

IsProgram(name) == source.kind = "chunk" /\ source.name = name

\* C1: two closures that capture the same local variable of one activation
\* (the same stack slot, created by the same push) hold one shared upvalue
\* cell, whatever was captured before it.
C1_SharedUpvalueCell ==
    \A r1 \in ClosureRefs, r2 \in ClosureRefs :
        \A i \in 1..Len(heap[r1].upvalues), j \in 1..Len(heap[r2].upvalues) :
            LET u1 == heap[r1].upvalues[i]
                u2 == heap[r2].upvalues[j]
            IN heap[u1].var = heap[u2].var => u1 = u2

\* C2: the instruction that raises a runtime error ends run() with the
\* RuntimeError, and from then on no instruction executes: stdout, globals,
\* heap (fields), frames and stack stay as they are and main exits; in a
\* session of the repl the globals and the heap stay as they are, the error is
\* printed and the next line is read.
C2_StopsAtFirstRuntimeError ==
    [][/\ (pc = "run" /\ Len(err') > Len(err) /\ res' # "panic")
            => (res' = "RuntimeError" /\ pc' = "returned")
       /\ res = "RuntimeError"
            => \/ /\ UNCHANGED <<out, globals, heap, frames, stack, open_upvalues, res>>
                  /\ pc' = "exited"
               \/ /\ lines_read > 0
                  /\ lines_read' = lines_read + 1
                  /\ UNCHANGED <<globals, heap>>
                  /\ out' = Append(out, display_error)
                  /\ pc' = "start"]_vars

\* The runtime error of b() in error_trace is raised two calls deep; the
\* print statement after the call never runs.
C2_Witness ==
    /\ IsProgram("error_trace")
    /\ pc = "exited"
    /\ res = "RuntimeError"
    /\ Len(frames) = 3
    /\ out = <<>>

\* C3: unbounded recursion, which needs more frames and stack slots than
\* the limit, ends with the runtime error "Stack overflow." returned from
\* interpret.
C3_StackOverflow ==
    (IsProgram("recursion") /\ pc \in {"returned", "exited"})
        => (res = "RuntimeError" /\ err # <<>> /\ Head(err) = "Stack overflow.")

\* C4: GetGlobal of a name that is not in globals raises a runtime error and
\* pushes nothing.
C4_UndefinedGetGlobal ==
    [][(Running(OP_GET_GLOBAL) /\ NextConstant.string \notin DOMAIN globals)
            => (res' = "RuntimeError" /\ Len(stack') <= Len(stack))]_vars

\* C5: SetGlobal of a defined name stores the top of the stack under the name
\* and leaves the stack alone; of an undefined name it raises "Undefined
\* variable '<n>'." and leaves globals unchanged.
C5_SetGlobal ==
    [][Running(OP_SET_GLOBAL)
            => LET name == NextConstant.string
               IN IF name \in DOMAIN globals
                  THEN /\ globals' = [globals EXCEPT ![name] = peek(Ctx, 0)]
                       /\ stack' = stack
                       /\ res' = "none"
                  ELSE /\ globals' = globals
                       /\ res' = "RuntimeError"
                       /\ Len(err') > Len(err)
                       /\ err'[Len(err) + 1] = "Undefined variable '" \o name \o "'."]_vars

\* The failed assignment of undefined_set: the error is reported and the
\* name is still undefined.
C5_Witness ==
    /\ IsProgram("undefined_set")
    /\ res = "RuntimeError"
    /\ err # <<>>
    /\ Head(err) = "Undefined variable 'x'."
    /\ "x" \notin DOMAIN globals

\* The result of compile() is decided.
Compiled == pc \notin {"start", "compile"}

C6_Decided ==
    (source.kind = "tokens" /\ lines_read = 0) =>
        /\ (Compiled /\ res # "panic") => (res = "CompileError" <=> comp.had_error)
        /\ (pc \in {"compile", "compiled"} \/ res = "CompileError")
                => (comp.had_error <=> err # <<>>)
        /\ res = "CompileError"
                => (comp.current.kind = "Eof" /\ comp.scanner.pos = Len(source.tokens))

\* C6: compile() fails exactly when an error was reported: had_error is set
\* whenever a diagnostic was printed, is never cleared, and a failed
\* compile() has read the source to Eof. A compile() that panicked has
\* returned nothing, and every line of a repl session has a compiler of its
\* own (the decision is checked on the sources of run_file).
C6_FailsIffHadError ==
    [][(lines_read' = lines_read /\ comp.had_error => comp'.had_error)
       /\ C6_Decided']_vars

\* Two errors are reported for one source and compile() fails at Eof.
C6_Witness ==
    /\ source.kind = "tokens"
    /\ res = "CompileError"
    /\ Len(err) = 2
    /\ comp.current.kind = "Eof"

Log == comp.log
Events(event) == {i \in 1..Len(Log) : Log[i].event = event}
Between(i, j, event) == \E m \in Events(event) : i < m /\ m < j

\* synchronize() returned at a `;` just passed, at a statement keyword or at Eof.
Stopped(m) ==
    \/ Log[m].previous = "Semicolon"
    \/ Log[m].current \in StopKinds
    \/ Log[m].current = "Eof"

\* C7 as stated: between two diagnostics a synchronize() has run to its end,
\* and it returns with panic_mode clear at one of its stopping points.
C7_SuppressedUntilSynchronized ==
    /\ \A i \in Events("error"), j \in Events("error") :
            i < j => Between(i, j, "synchronized")
    /\ \A m \in Events("synchronized") : ~Log[m].panic_mode /\ Stopped(m)

\* C7 as amended: between two diagnostics synchronize() has cleared
\* panic_mode; it clears it on entry and returns only at a stopping point; it
\* returns with panic_mode set only when it reported an Error token it
\* skipped; and an error is suppressed only after a diagnostic that no
\* synchronize() has followed yet.
C7_SuppressedUntilCleared ==
    /\ \A i \in Events("error"), j \in Events("error") :
            i < j => Between(i, j, "synchronize")
    /\ \A m \in Events("synchronize") : ~Log[m].panic_mode
    /\ \A m \in Events("synchronized") :
            /\ Stopped(m)
            /\ Log[m].panic_mode =>
                    \E i \in Events("error") :
                        /\ i < m
                        /\ Log[i].current = "Error"
                        /\ ~Between(i, m, "synchronize")
    /\ \A j \in Events("suppressed") :
            \E i \in Events("error") : i < j /\ ~Between(i, j, "synchronize")

\* A diagnostic, a suppressed error, a synchronize() and then the diagnostic
\* of a later statement.
C7_Witness ==
    \E i \in Events("error"), j \in Events("suppressed"),
       m \in Events("synchronized"), n \in Events("error") :
        i < j /\ j < m /\ m < n /\ ~Log[m].panic_mode

claimed_name(f) == IF f.name = "" THEN "script" ELSE f.name

RECURSIVE claimed_trace(_)
claimed_trace(i) ==
    IF i = 0 THEN <<>>
    ELSE LET f == frame_function(Ctx, frames[i])
         IN <<"[line " \o ToString(f.chunk.lines[frames[i].ip]) \o "] in "
                \o claimed_name(f)>>
            \o claimed_trace(i - 1)

\* C8: after a runtime error stderr holds the message and then one line per
\* frame, innermost first, `[line L] in NAME` or `[line L] in script`, and
\* the value stack is empty.
C8_RuntimeErrorTrace ==
    res = "RuntimeError" =>
        /\ stack = <<>>
        /\ Len(err) = 1 + Len(frames)
        /\ SubSeq(err, 2, Len(err)) = claimed_trace(Len(frames))

\* C9: the exit code is 0 exactly for Ok, with nothing on stderr, 65 exactly
\* for a failed compile() and 70 exactly for a RuntimeError; a compile() that
\* returned has failed exactly when had_error is set.
C9_ExitCodes ==
    pc = "exited" =>
        /\ exit_code = 0 <=> res = "Ok"
        /\ exit_code = 65 <=> res = "CompileError"
        /\ exit_code = 70 <=> res = "RuntimeError"
        /\ exit_code = 0 => err = <<>>
        /\ (source.kind = "tokens" /\ res # "panic")
                => (exit_code = 65 <=> comp.had_error)
        /\ exit_code = 70 => (err # <<>> /\ ~comp.had_error)

\* A source that compiles and then fails at run time exits with 70.
C9_Witness ==
    /\ source.kind = "tokens"
    /\ pc = "exited"
    /\ exit_code = 70
    /\ ~comp.had_error

\* Equality as the claim has it: objects by allocation, strings and the
\* other values by content.
identical(a, b) ==
    IF a.t = "obj" /\ b.t = "obj" THEN a.ref = b.ref ELSE a = b

\* C10: Equal pushes true for two objects only when they are the same heap
\* allocation, and for two strings exactly when their contents are equal.
C10_EqualByIdentity ==
    [][Running(OP_EQUAL)
            => stack'[Len(stack')] = Bool(identical(peek(Ctx, 1), peek(Ctx, 0)))]_vars

(***************************************************************************)
(* C11: redeclaration and shadowing.                                       *)
(***************************************************************************)
Family == IF "family" \in DOMAIN source THEN source.family ELSE ""

CompileFinished == pc \in {"compiled", "run", "returned", "exited"}

\* What the language says of a block program, item by item: scopes is the
\* stack of scopes (the globals first) with the value each name is bound to
\* (0: not declared there), redeclared counts the declarations of a name
\* that the innermost block already declares, printed is what the prints
\* write up to the first print of a name no scope binds.
RECURSIVE scoped(_)
scoped(items) ==
    IF items = <<>>
    THEN [scopes |-> <<[x |-> 0, y |-> 0]>>, redeclared |-> 0, printed |-> <<>>,
          undefined |-> FALSE]
    ELSE LET s == scoped(SubSeq(items, 1, Len(items) - 1))
             item == items[Len(items)]
             depth == Len(s.scopes)
             binding == {i \in 1..depth : s.scopes[i].x # 0}
         IN CASE item = "{" -> [s EXCEPT !.scopes = Append(@, [x |-> 0, y |-> 0])]
              [] item = "}" -> [s EXCEPT !.scopes = SubSeq(@, 1, depth - 1)]
              [] item = "print x;" ->
                    IF s.undefined THEN s
                    ELSE IF binding = {} THEN [s EXCEPT !.undefined = TRUE]
                    ELSE [s EXCEPT !.printed =
                            Append(@, ToString(s.scopes[Max(binding)].x))]
              [] OTHER ->
                    IF depth > 1 /\ s.scopes[depth][item_name(item)] # 0
                    THEN [s EXCEPT !.redeclared = @ + 1]
                    ELSE [s EXCEPT !.scopes[depth][item_name(item)] = item_value(item)]

AlreadyDeclared ==
    {"[line 1] Error at '" \o name
        \o "': Already a variable with this name in this scope." : name \in {"x", "y"}}

\* C11: in a program of blocks, declarations and prints, the compiler
\* reports "Already a variable with this name in this scope." once for each
\* declaration of a name the innermost enclosing block already declares and
\* for no other declaration (none at the top level, none that shadows a name
\* of an outer block); when there is none and every block is closed, the
\* program runs and each print writes the value of the innermost binding, a
\* second top-level declaration having overwritten the first (programs that
\* print a name no scope binds are left out).
C11_Redeclaration ==
    Family = "items" =>
        LET expected == scoped(source.items)
        IN /\ CompileFinished =>
                Cardinality({i \in DOMAIN err : err[i] \in AlreadyDeclared})
                    = expected.redeclared
           /\ (pc = "returned" /\ expected.redeclared = 0 /\ ~expected.undefined
               /\ open_blocks(source.items) = 0) =>
                /\ out = expected.printed
                /\ res = "Ok"

\* The second declaration of x in one block was refused.
C11_Witness ==
    /\ Family = "items"
    /\ source.items = <<"{", "var x = 1;", "var x = 2;", "}">>
    /\ pc = "returned"
    /\ res = "CompileError"
    /\ err = <<"[line 1] Error at 'x': Already a variable with this name in this scope.">>

(***************************************************************************)
(* C12: the arity check of call.                                           *)
(***************************************************************************)
\* C12: every step that calls a closure (a function, a method, a bound
\* method, an initializer, a method reached through super) pushes one frame
\* exactly when arg_count equals the arity of the closure's function, and
\* that frame's slots_base is arg_count + 1 below the stack top; otherwise it
\* pushes no frame and run() fails with "Expected N arguments but got M.",
\* N the arity and M arg_count.
C12_CallArity ==
    [][called'.serial # called.serial =>
        LET closure == called'.closure
            arg_count == called'.arg_count
            arity == heap'[closure].function.arity
        IN IF arg_count = arity
           THEN /\ Len(frames') = Len(frames) + 1
                /\ frames'[Len(frames')] =
                        [closure |-> closure, ip |-> 0,
                         slots_base |-> Len(stack') - arg_count - 1]
                /\ res' = res
                /\ err' = err
           ELSE /\ Len(frames') = Len(frames)
                /\ res' = "RuntimeError"
                /\ Len(err') > Len(err)
                /\ err'[Len(err) + 1] = "Expected " \o ToString(arity)
                        \o " arguments but got " \o ToString(arg_count) \o "."]_vars

\* A bound method of one parameter was called with two arguments.
C12_Witness ==
    /\ Family = "arity"
    /\ source.form = "bound method"
    /\ source.arity = 1
    /\ source.argc = 2
    /\ called.arg_count = 2
    /\ heap[called.closure].function.arity = 1
    /\ res = "RuntimeError"
    /\ err[1] = "Expected 1 arguments but got 2."

(***************************************************************************)
(* C13, C14, C15: the limits of constants, locals and parameters.          *)
(***************************************************************************)
\* C13: a script of n expression statements `1;` needs n constants; it
\* compiles when n is 256 (or less) and fails with "Too many constants in
\* one chunk." when n is 257 (or more).
C13_ConstantBoundary ==
    (Family = "constants" /\ CompileFinished) =>
        /\ source.n <= U8_MAX + 1 => (err = <<>> /\ res # "CompileError")
        /\ source.n >= U8_MAX + 2 =>
                /\ res = "CompileError"
                /\ err[1] = "[line 1] Error at '1': Too many constants in one chunk."

TooManyLocals(name) ==
    "[line 1] Error at '" \o name \o "': Too many local variables in function."

\* C14: a script whose block declares n variables has n + 1 locals (slot 0
\* and the n variables); it compiles when that makes 256 locals (or fewer)
\* and fails with "Too many local variables in function." when it makes 257
\* (or more).
C14_LocalBoundary ==
    (Family = "locals" /\ CompileFinished) =>
        /\ source.n + 1 <= U8_MAX + 1 => (err = <<>> /\ res # "CompileError")
        /\ source.n + 1 >= U8_MAX + 2 =>
                /\ res = "CompileError"
                /\ \E i \in 1..source.n : err[1] = TooManyLocals("x" \o ToString(i))

\* C15: `fun f(p1, ..., pn) {}` compiles without error when n is 255 (or
\* less) and fails with "Can't have more than 255 parameters.", reported at
\* the 256th parameter, when n is 256 (or more).
C15_ParameterBoundary ==
    (Family = "params" /\ CompileFinished) =>
        /\ source.n <= U8_MAX => (err = <<>> /\ res # "CompileError")
        /\ source.n >= U8_MAX + 1 =>
                /\ res = "CompileError"
                /\ \E i \in DOMAIN err :
                        err[i] = "[line 1] Error at 'p" \o ToString(U8_MAX + 1)
                                    \o "': Can't have more than 255 parameters."

(***************************************************************************)
(* C16: the stacks when interpret returns.                                 *)
(***************************************************************************)
\* C16: when interpret has returned Ok the value stack and the frame stack
\* are empty, and when it has returned a runtime error the value stack is
\* empty.
C16_StacksEmptyAfterInterpret ==
    pc = "returned" =>
        /\ res = "Ok" => (stack = <<>> /\ frames = <<>>)
        /\ res = "RuntimeError" => stack = <<>>

(***************************************************************************)
(* C17: print of a string.                                                 *)
(***************************************************************************)
\* C17: the Print instruction, when the value on top of the stack is a
\* string, writes one line that is the string's contents with no quotes
\* around them; `print "foo" + "bar" + "baz";` writes foobarbaz.
C17_PrintsRawString ==
    [][(pc = "run" /\ Fetched.byte = OP_PRINT /\ stack # <<>>
        /\ peek(Ctx, 0).t = "string")
            => out' = Append(out, peek(Ctx, 0).string)]_vars

(***************************************************************************)
(* C18: the result of calling a class with an initializer.                 *)
(***************************************************************************)
\* The frame runs the method `init` of some class.
InitializerFrame(h, frame) ==
    \E r \in DOMAIN h :
        /\ h[r].kind = "Class"
        /\ "init" \in DOMAIN h[r].methods
        /\ h[r].methods["init"] = frame.closure

\* The next instruction is Call on a class that has `init`, with as many
\* arguments as init has parameters.
ClassCallWithInit ==
    /\ pc = "run"
    /\ Fetched.byte = OP_CALL
    /\ LET r == read_byte(Fetched.c)
           callee == peek(r.c, r.byte)
       IN /\ is_class(Ctx, callee)
          /\ "init" \in DOMAIN heap[callee.ref].methods
          /\ r.byte = heap[heap[callee.ref].methods["init"]].function.arity

\* C18: a call of a class that has `init` creates an Instance of the class,
\* puts it in slot 0 of the frame it pushes for init (`this`), no step of
\* the run changes slot 0 of a frame of init, and the Return of such a
\* frame, implicit or a bare `return;`, leaves the value of slot 0 where
\* the class was, as the call's result: the result is the new instance for
\* every body of init.
C18_InitializerResult ==
    [][/\ ClassCallWithInit =>
            LET argc == read_byte(Fetched.c).byte
                class == peek(Ctx, argc).ref
                frame == frames'[Len(frames')]
            IN /\ Len(frames') = Len(frames) + 1
               /\ frame.closure = heap[class].methods["init"]
               /\ heap' = Append(heap, Instance(class))
               /\ stack'[frame.slots_base + 1] = Obj(Len(heap'))
       /\ \A i \in DOMAIN frames :
            (InitializerFrame(heap, frames[i]) /\ pc = "run" /\ pc' = "run") =>
                stack'[frames[i].slots_base + 1] = stack[frames[i].slots_base + 1]
       /\ (pc = "run" /\ Fetched.byte = OP_RETURN /\ pc' = "run"
           /\ InitializerFrame(heap, current_frame(Ctx))) =>
                /\ Len(frames') = Len(frames) - 1
                /\ Len(stack') = current_frame(Ctx).slots_base + 1]_vars

\* init assigned a field of `this` and executed `return;`: the global k
\* holds the instance that has the field.
C18_Witness ==
    /\ Family = "init"
    /\ source.body = <<"this.x = 1;", "return;">>
    /\ pc = "returned"
    /\ res = "Ok"
    /\ out = <<"K instance">>
    /\ "k" \in DOMAIN globals
    /\ globals["k"].t = "obj"
    /\ heap[globals["k"].ref].kind = "Instance"
    /\ heap[globals["k"].ref].fields = MapInsert(EmptyMap, "x", Number(1))

(***************************************************************************)
(* C19: super.                                                             *)
(***************************************************************************)
\* The next instruction is SuperInvoke or GetSuper in the frame of a method
\* that was declared in a class with a superclass.
SuperAccess ==
    /\ pc = "run"
    /\ Fetched.byte \in {OP_SUPER_INVOKE, OP_GET_SUPER}
    /\ current_frame(Ctx).closure \in DOMAIN declared.method_of
    /\ declared.method_of[current_frame(Ctx).closure] \in DOMAIN declared.superclass

\* C19: `super.m(args)` and `super.m` in a method declared in class B, B
\* declared with superclass A, use A's method m (when A has one, and for
\* the call when the argument count is m's arity) with the `this` of the
\* running method as receiver, whatever the class of `this`: the call
\* pushes a frame of A's m whose slot 0 is `this`, the access leaves the
\* bound method of `this` and A's m on the stack.
C19_SuperResolvesInSuperclass ==
    [][SuperAccess =>
        LET B == declared.method_of[current_frame(Ctx).closure]
            A == declared.superclass[B]
            name == read_constant(Fetched.c)
            m == name.value.string
            receiver == stack[current_frame(Ctx).slots_base + 1]
            argc == read_byte(name.c).byte
            top == stack'[Len(stack')]
        IN m \in DOMAIN heap[A].methods =>
            IF Fetched.byte = OP_GET_SUPER
            THEN /\ pc' = "run"
                 /\ top.t = "obj"
                 /\ heap'[top.ref] = BoundMethod(receiver, heap[A].methods[m])
            ELSE argc = heap[heap[A].methods[m]].function.arity =>
                    /\ pc' = "run"
                    /\ Len(frames') = Len(frames) + 1
                    /\ frames'[Len(frames')].closure = heap[A].methods[m]
                    /\ stack'[frames'[Len(frames')].slots_base + 1] = receiver]_vars

(***************************************************************************)
(* C20: progress of the scanner and the end of the input.                  *)
(***************************************************************************)
\* Every character of the text has been consumed.
Exhausted == scanner.current_pos >= Len(scanner.source_chars)

\* C20: a call of scan_token made before the text is exhausted moves the
\* position forward by at least one character, so among the first
\* len(source) + 1 tokens returned there is an Eof; a call made when the
\* text is exhausted returns the token Eof with the empty lexeme and leaves
\* current_pos and line as they were.
C20_ScannerProgress ==
    /\ [](Len(scans) > Len(scanner.source_chars) =>
            \E i \in 1..(Len(scanner.source_chars) + 1) : scans[i].kind = "Eof")
    /\ [][scans' # scans =>
            /\ Len(scans') = Len(scans) + 1
            /\ ~Exhausted => scanner'.current_pos > scanner.current_pos
            /\ Exhausted =>
                    /\ scans'[Len(scans')].kind = "Eof"
                    /\ scans'[Len(scans')].lexeme = ""
                    /\ scanner'.current_pos = scanner.current_pos
                    /\ scanner'.line = scanner.line]_vars

\* scan_token has been called after the end of a text that ends inside a
\* comment: the calls returned an identifier, an Eof after skipping the
\* comment, and Eof again.
C20_Witness ==
    /\ source.kind = "text"
    /\ source.chars = <<"a", "/", "/", "1">>
    /\ Len(scans) = 3
    /\ scans[1] = Token("Identifier", "a", 1)
    /\ scans[2] = Token("Eof", "", 1)
    /\ scans[3] = Token("Eof", "", 1)
    /\ scanner.current_pos = 4
(***************************************************************************)
(* C21..C25: the list of open upvalues.                                    *)
(***************************************************************************)
\* The stack locations of the open upvalues, in the order of the list.
OpenLocations == [i \in DOMAIN open_upvalues |-> heap[open_upvalues[i]].location]

\* C21: after any sequence of capture_upvalue and close_upvalues the list of
\* open upvalues is sorted by strictly descending stack location, the
\* highest location at the front.
C21_OpenListSorted ==
    \A i \in 1..(Len(open_upvalues) - 1) : OpenLocations[i] > OpenLocations[i + 1]

\* C22: capture_upvalue returns the open upvalue of a location when the list
\* has one, so the list never holds two upvalues of one stack location.
C22_OneUpvaluePerLocation ==
    \A i, j \in DOMAIN open_upvalues : i # j => OpenLocations[i] # OpenLocations[j]

\* C23: capture_upvalue terminates whatever the list and the stack index
\* are, also when two or more open upvalues lie above the stack index: the
\* VM never stays in the search loop for ever.
C23_CaptureTerminates == res # "hang"

\* The argument of close_upvalues in the instruction about to be executed:
\* the index of the top of the stack for CloseUpvalue, the slots_base of the
\* returning frame for Return.
ClosingFrom ==
    IF Fetched.byte = OP_CLOSE_UPVALUE THEN Len(stack) - 1
    ELSE current_frame(Ctx).slots_base

\* The stack that close_upvalues reads: Return has popped the result.
ClosingStack ==
    IF Fetched.byte = OP_CLOSE_UPVALUE THEN stack ELSE SubSeq(stack, 1, Len(stack) - 1)

\* C24: CloseUpvalue and Return close every open upvalue at or above the
\* location they close from: its closed cell receives the value its stack
\* slot holds at that moment and it leaves the list; the open upvalues below
\* that location stay in the list as they were.
C24_ClosesAllAbove ==
    [][Running(OP_CLOSE_UPVALUE) \/ Running(OP_RETURN) =>
        \A i \in DOMAIN open_upvalues :
            LET ref == open_upvalues[i]
                location == heap[ref].location
            IN IF location >= ClosingFrom
               THEN /\ location < Len(ClosingStack)
                    /\ heap'[ref].closed = Some(ClosingStack[location + 1])
                    /\ \A j \in DOMAIN open_upvalues' : open_upvalues'[j] # ref
               ELSE /\ heap'[ref] = heap[ref]
                    /\ \E j \in DOMAIN open_upvalues' : open_upvalues'[j] = ref]_vars

\* C25: while the VM runs, every open upvalue has a location below the
\* length of the value stack: none refers to a slot that was popped or
\* truncated.
C25_OpenUpvaluesOnStack ==
    pc = "run" => \A i \in DOMAIN open_upvalues : OpenLocations[i] < Len(stack)
(***************************************************************************)
(* C26: upvalues when interpret returns.                                   *)
(***************************************************************************)
\* The closures that are the value of a global variable.
GlobalClosures ==
    {globals[name].ref : name \in
        {n \in DOMAIN globals :
            globals[n].t = "obj" /\ heap[globals[n].ref].kind = "Closure"}}

\* C26: when interpret returns, with Ok or with a runtime error, every
\* upvalue of every closure reachable from the globals is closed (here: of
\* every closure that is the value of a global), so that no such closure
\* refers to a slot of the value stack of a later interpret call.
C26_ClosedWhenInterpretReturns ==
    pc = "returned" /\ res \in {"Ok", "RuntimeError"} =>
        \A closure \in GlobalClosures :
            \A i \in DOMAIN heap[closure].upvalues :
                heap[heap[closure].upvalues[i]].closed.some
(***************************************************************************)
(* C27: the effect of Return.                                              *)
(***************************************************************************)
\* C27: a Return in a frame that is not the last one pops that frame only,
\* leaves the slots below its slots_base as they are, truncates the stack to
\* slots_base and pushes the result, and the caller goes on from where its
\* call left it; a Return in the last frame ends run() with Ok.
C27_ReturnEffect ==
    [][Running(OP_RETURN) =>
        LET base == current_frame(Ctx).slots_base
            result == stack[Len(stack)]
        IN IF Len(frames) > 1
           THEN /\ frames' = SubSeq(frames, 1, Len(frames) - 1)
                /\ stack' = SubSeq(stack, 1, base) \o <<result>>
                /\ pc' = "run"
           ELSE /\ frames' = <<>>
                /\ pc' = "returned"
                /\ res' = "Ok"]_vars
(***************************************************************************)
(* C28: Invoke against GetProperty followed by Call.                       *)
(***************************************************************************)
\* The context of an Invoke instruction once its two operands are read, the
\* name invoked and the number of arguments.
InvokeOperands ==
    LET method_constant == read_constant(Fetched.c)
        arg_count == read_byte(method_constant.c)
    IN [c |-> arg_count.c, name |-> method_constant.value.string,
        arg_count |-> arg_count.byte]

RECURSIVE push_all(_, _)
push_all(c, values) ==
    IF values = <<>> THEN c ELSE push_all(push(c, Head(values)), Tail(values))

\* GetProperty `name` run on the receiver before the arguments are pushed,
\* then the arguments, then Call arg_count; an error ends the sequence.
GetPropertyThenCall(c, name, arg_count, now) ==
    LET args == SubSeq(c.stack, Len(c.stack) - arg_count + 1, Len(c.stack))
        got == get_property(truncate(c, Len(c.stack) - arg_count), name)
        pushed == push_all(got, args)
    IN IF got.fault # "" THEN got
       ELSE call_value(pushed, peek(pushed, arg_count), arg_count, now)

\* C28: Invoke on an instance leaves the stack, the frames and the error
\* outcome that GetProperty of the same name on that receiver followed by
\* Call with the same arguments leaves: a field is called as a value (it
\* shadows a method of the same name), otherwise the method of the class is
\* called with the receiver in slot 0 of its frame, and a name that is
\* neither raises "Undefined property '<name>'.".
C28_InvokeIsGetPropertyThenCall ==
    [][Running(OP_INVOKE)
            /\ is_instance(Ctx, peek(InvokeOperands.c, InvokeOperands.arg_count)) =>
        LET o == InvokeOperands
            instance == heap[peek(o.c, o.arg_count).ref]
        IN /\ \E now \in 0..MaxNow :
                LET two == GetPropertyThenCall(o.c, o.name, o.arg_count, now)
                IN /\ stack' = two.stack
                   /\ frames' = two.frames
                   /\ pc' = run_outcome(two).pc
                   /\ res' = run_outcome(two).res
                   /\ err' = two.err
           /\ (o.name \notin DOMAIN instance.fields
                /\ o.name \in DOMAIN heap[instance.class].methods
                /\ res' = "none") =>
                    /\ Len(frames') = Len(frames) + 1
                    /\ frames'[Len(frames')].closure
                            = heap[instance.class].methods[o.name]
                    /\ stack'[frames'[Len(frames')].slots_base + 1]
                            = peek(o.c, o.arg_count)
           /\ (o.name \notin DOMAIN instance.fields
                /\ o.name \notin DOMAIN heap[instance.class].methods) =>
                    /\ res' = "RuntimeError"
                    /\ err'[Len(err) + 1] = "Undefined property '" \o o.name \o "'."]_vars

\* An Invoke has called the closure in the field m of the instance, which
\* shadows the method m of its class: the program printed 2, not 1.
C28_Witness ==
    /\ Family = "invoke"
    /\ source.field = "a.m = f;"
    /\ source.name = "m"
    /\ source.argc = 1
    /\ out = <<"2">>
(***************************************************************************)
(* C29: calling a bound method.                                            *)
(***************************************************************************)
\* The value that the instruction about to be executed hands to call_value
\* and the number of arguments: the callee of Call, or the field invoked by
\* Invoke on an instance (arg_count is -1 for any other instruction).
Callee ==
    IF Fetched.byte = OP_CALL
    THEN LET r == read_byte(Fetched.c)
         IN [value |-> peek(r.c, r.byte), arg_count |-> r.byte]
    ELSE IF Fetched.byte = OP_INVOKE
                /\ is_instance(Ctx, peek(InvokeOperands.c, InvokeOperands.arg_count))
                /\ InvokeOperands.name \in DOMAIN
                        heap[peek(InvokeOperands.c, InvokeOperands.arg_count).ref].fields
    THEN [value |-> heap[peek(InvokeOperands.c, InvokeOperands.arg_count).ref]
                        .fields[InvokeOperands.name],
          arg_count |-> InvokeOperands.arg_count]
    ELSE [value |-> Nil, arg_count |-> -1]

CallsBoundMethod ==
    /\ pc = "run"
    /\ Callee.arg_count >= 0
    /\ Callee.value.t = "obj"
    /\ heap[Callee.value.ref].kind = "BoundMethod"

\* C29: a property read that finds a method binds it to the instance read
\* from, a bound method never changes, and a call of a bound method with
\* argc arguments writes the bound receiver into the slot argc below the top
\* and calls the wrapped closure with that slot as slot 0 of its frame, so
\* `this` in the body is the instance the method was read from, also when
\* the bound method was stored and called later.
C29_BoundMethodCall ==
    [][/\ \A r \in DOMAIN heap :
            heap[r].kind = "BoundMethod" => heap'[r] = heap[r]
       /\ (Running(OP_GET_PROPERTY) /\ res' = "none"
                /\ is_instance(Ctx, peek(Ctx, 0))
                /\ NextConstant.string \notin DOMAIN heap[peek(Ctx, 0).ref].fields) =>
            LET bound == stack'[Len(stack')]
            IN /\ bound.t = "obj"
               /\ bound.ref \notin DOMAIN heap
               /\ heap'[bound.ref]
                    = BoundMethod(peek(Ctx, 0),
                        heap[heap[peek(Ctx, 0).ref].class].methods[NextConstant.string])
       /\ CallsBoundMethod =>
            LET bound == heap[Callee.value.ref]
                slot == Len(stack) - Callee.arg_count
            IN IF Callee.arg_count = heap[bound.method].function.arity
                    /\ Len(frames) < FRAMES_MAX
               THEN /\ stack' = [stack EXCEPT ![slot] = bound.receiver]
                    /\ Len(frames') = Len(frames) + 1
                    /\ frames'[Len(frames')]
                        = [closure |-> bound.method, ip |-> 0, slots_base |-> slot - 1]
                    /\ stack'[frames'[Len(frames')].slots_base + 1] = bound.receiver
               ELSE res' = "RuntimeError"]_vars

\* The method m, read from an instance and stored in the global b, has been
\* called through b with two arguments: slot 0 of its frame holds the
\* instance it was read from.
C29_Witness ==
    /\ Family = "arity"
    /\ source.form = "bound method"
    /\ source.arity = 2
    /\ source.argc = 2
    /\ pc = "run"
    /\ Len(frames) = 2
    /\ "b" \in DOMAIN globals
    /\ heap[globals["b"].ref].kind = "BoundMethod"
    /\ frames[2].closure = heap[globals["b"].ref].method
    /\ is_instance(Ctx, stack[frames[2].slots_base + 1])
    /\ stack[frames[2].slots_base + 1] = heap[globals["b"].ref].receiver
(***************************************************************************)
(* C30: Inherit and the methods of the subclass.                           *)
(***************************************************************************)
\* C30: Inherit puts every method the superclass has at that moment into
\* the subclass and pops the subclass only, so that the superclass stays on
\* the stack as the local `super`; a Method instruction afterwards binds its
\* name in the class under definition, replacing a copied method of that
\* name, and changes no other class; the superclass's methods are never
\* changed by either; a superclass that is not a class raises "Superclass
\* must be a class.".
C30_Inherit ==
    [][/\ Running(OP_INHERIT) =>
            LET superclass == peek(Ctx, 1)
                subclass == peek(Ctx, 0)
            IN IF is_class(Ctx, superclass)
               THEN LET inherited == heap[superclass.ref].methods
                        before == heap[subclass.ref].methods
                        after == heap'[subclass.ref].methods
                    IN /\ res' = "none"
                       /\ stack' = SubSeq(stack, 1, Len(stack) - 1)
                       /\ stack'[Len(stack')] = superclass
                       /\ DOMAIN after = DOMAIN before \cup DOMAIN inherited
                       /\ \A name \in DOMAIN inherited : after[name] = inherited[name]
                       /\ \A name \in DOMAIN before \ DOMAIN inherited :
                                after[name] = before[name]
                       /\ heap'[superclass.ref] = heap[superclass.ref]
               ELSE /\ res' = "RuntimeError"
                    /\ err'[Len(err) + 1] = "Superclass must be a class."
       /\ Running(OP_METHOD) /\ res' = "none" =>
            LET class == peek(Ctx, 1)
            IN /\ heap'[class.ref].methods
                    = MapInsert(heap[class.ref].methods, NextConstant.string,
                                peek(Ctx, 0).ref)
               /\ \A r \in DOMAIN heap :
                    heap[r].kind = "Class" /\ r # class.ref => heap'[r] = heap[r]]_vars

\* A subclass whose Inherit copied the method m of its superclass has then
\* defined its own m and a further method t: its m is no longer the
\* superclass's, and the superclass has m only.
C30_Witness ==
    /\ Family = "program"
    /\ source.name = "super_invoke"
    /\ \E sub \in DOMAIN declared.superclass :
            LET super == declared.superclass[sub]
            IN /\ DOMAIN heap[super].methods = {"m"}
               /\ DOMAIN heap[sub].methods = {"m", "t"}
               /\ heap[sub].methods["m"] # heap[super].methods["m"]
(***************************************************************************)
(* C31: the stack effect of each instruction.                              *)
(***************************************************************************)
\* The stack-effect column of the instruction table, for an instruction with
\* arg_count as its argc operand and with get_super as the effect of GetSuper.
stack_effect(opcode, arg_count, get_super) ==
    CASE opcode \in {OP_CONSTANT, OP_NIL, OP_TRUE, OP_FALSE, OP_GET_LOCAL,
                     OP_GET_GLOBAL, OP_GET_UPVALUE, OP_CLOSURE, OP_CLASS} -> 1
      [] opcode \in {OP_POP, OP_DEFINE_GLOBAL, OP_SET_PROPERTY, OP_EQUAL, OP_GREATER,
                     OP_LESS, OP_ADD, OP_SUBTRACT, OP_MULTIPLY, OP_DIVIDE, OP_PRINT,
                     OP_CLOSE_UPVALUE, OP_INHERIT, OP_METHOD} -> -1
      [] opcode \in {OP_SET_LOCAL, OP_SET_GLOBAL, OP_SET_UPVALUE, OP_GET_PROPERTY,
                     OP_NEGATE, OP_NOT, OP_JUMP, OP_JUMP_IF_FALSE, OP_LOOP} -> 0
      [] opcode = OP_GET_SUPER -> get_super
      [] opcode \in {OP_CALL, OP_INVOKE} -> 0 - arg_count
      [] opcode = OP_SUPER_INVOKE -> 0 - arg_count - 1

\* GetSuper as the table lists it, -1+1, and with the receiver counted: the
\* superclass and the receiver are popped and the bound method is pushed.
GetSuperListed == (-1) + 1
GetSuperWithReceiver == (-1) + (-1) + 1

\* The argc operand of the instruction about to run, 0 where it has none.
FetchedArgCount ==
    CASE Fetched.byte = OP_CALL -> read_byte(Fetched.c).byte
      [] Fetched.byte \in {OP_INVOKE, OP_SUPER_INVOKE} -> InvokeOperands.arg_count
      [] OTHER -> 0

\* One instruction that completes and leaves run() running changes the
\* height of the stack by stack_effect(opcode, argc, get_super).  A call that pushes a frame
\* is completed by the Return of that frame, which leaves slots_base + 1
\* values: the height the call found plus the effect.  Until then the stack
\* holds the callee and its arguments (SuperInvoke has popped the superclass).
HeightChanges(get_super) ==
    (pc = "run" /\ pc' = "run") =>
        LET opcode == Fetched.byte
            height == Len(stack)
        IN CASE opcode = OP_RETURN ->
                    Len(stack') = current_frame(Ctx).slots_base + 1
             [] opcode \in {OP_CALL, OP_INVOKE, OP_SUPER_INVOKE}
                  /\ Len(frames') > Len(frames) ->
                    /\ frames'[Len(frames')].slots_base + 1
                            = height + stack_effect(opcode, FetchedArgCount, get_super)
                    /\ Len(stack') = height - (IF opcode = OP_SUPER_INVOKE THEN 1 ELSE 0)
             [] OTHER -> Len(stack') = height + stack_effect(opcode, FetchedArgCount, get_super)

\* SetLocal, SetGlobal and SetUpvalue leave the assigned value on top;
\* SetProperty replaces the instance and the value by the value.
AssignedValueStays ==
    (pc = "run" /\ pc' = "run") =>
        LET opcode == Fetched.byte
            height == Len(stack)
        IN /\ opcode \in {OP_SET_LOCAL, OP_SET_GLOBAL, OP_SET_UPVALUE}
                => stack'[Len(stack')] = stack[height]
           /\ opcode = OP_SET_PROPERTY
                => stack' = Append(SubSeq(stack, 1, height - 2), stack[height])

\* C31 as stated: every instruction that completes without a runtime error
\* changes the height of the value stack by the effect the instruction table
\* lists for it, and the assignments keep the assigned value on top.
C31_ListedStackEffect ==
    [][HeightChanges(GetSuperListed) /\ AssignedValueStays]_vars

\* C31 amended: every instruction that completes without a runtime error
\* changes the height of the value stack by the listed effect, where the
\* effect of GetSuper is -1; SetLocal, SetGlobal and SetUpvalue keep the
\* assigned value on top, SetProperty leaves the value in place of instance
\* and value, and a call with argc arguments that completes leaves argc
\* values fewer (one more for SuperInvoke).
C31_StackEffect ==
    [][HeightChanges(GetSuperWithReceiver) /\ AssignedValueStays]_vars

\* A program that reads a method through super and calls it has run to its
\* end: GetSuper, Call, Invoke and Return have acted.
C31_Witness ==
    /\ Family = "program"
    /\ source.name = "get_super"
    /\ pc = "returned"
    /\ res = "Ok"
    /\ Len(out) > 0
(***************************************************************************)
(* C32: locals and stack slots.                                            *)
(***************************************************************************)
\* The statement boundaries of the running function that the compiler noted
\* at the offset the frame is about to execute.
BoundariesHere ==
    {m \in comp.boundaries
            \cup {[function |-> e.function, at |-> e.at, locals |-> Len(e.locals)] :
                        e \in {comp.scopes[i] : i \in DOMAIN comp.scopes}} :
        /\ m.function = frame_function(Ctx, current_frame(Ctx)).name
        /\ m.at = current_frame(Ctx).ip}

\* At a statement boundary the stack of the running frame holds the locals
\* the compiler had in scope and nothing else.
HeightAtBoundary ==
    pc = "run" =>
        \A m \in BoundariesHere :
            Len(stack) = current_frame(Ctx).slots_base + m.locals

\* GetLocal i pushes, and SetLocal i overwrites with the top of the stack, the
\* value at stack[slots_base + i], a slot that the stack holds.
LocalAccess ==
    /\ Running(OP_GET_LOCAL) =>
            LET slot == current_frame(Ctx).slots_base + read_byte(Fetched.c).byte
            IN /\ slot < Len(stack)
               /\ stack' = Append(stack, stack[slot + 1])
    /\ Running(OP_SET_LOCAL) =>
            LET slot == current_frame(Ctx).slots_base + read_byte(Fetched.c).byte
            IN /\ slot < Len(stack)
               /\ stack' = [stack EXCEPT ![slot + 1] = stack[Len(stack)]]

\* C32: while a compiled function executes, at every statement boundary the
\* height of the value stack is the frame's slots_base plus the number of
\* locals the compiler had in scope there, and GetLocal i and SetLocal i
\* access stack[slots_base + i].
C32_LocalsAreSlots ==
    [][HeightAtBoundary' /\ LocalAccess]_vars

\* A function with a parameter and a loop has reached a statement boundary
\* of the loop after the first iteration has assigned the parameter: the
\* height is slots_base plus the callee and the parameter.
C32_Witness ==
    /\ Family = "loop"
    /\ source.place = "function"
    /\ source.form = "while"
    /\ pc = "run"
    /\ Len(frames) = 2
    /\ BoundariesHere # {}
    /\ Len(stack) = current_frame(Ctx).slots_base + 2
    /\ stack[Len(stack)] = Number(1)
(***************************************************************************)
(* C33: what end_scope removes and emits.                                  *)
(***************************************************************************)
\* The locals of `locals` that were declared deeper than scope depth `depth`.
DeclaredBelow(locals, depth) == {i \in DOMAIN locals : locals[i].depth > depth}

\* One call of end_scope, as scope_ended noted it: the locals declared in the
\* scope that ends are the last ones, all of them are removed and the others
\* are kept; the code emitted has one instruction for each removed local,
\* the last local first, CloseUpvalue for a captured local and Pop otherwise.
ScopeEndedRight(e) ==
    LET removed == DeclaredBelow(e.locals, e.depth)
        left == Len(e.locals) - Cardinality(removed)
    IN /\ removed = (left + 1)..Len(e.locals)
       /\ e.kept = SubSeq(e.locals, 1, left)
       /\ Len(e.code) = Cardinality(removed)
       /\ \A j \in DOMAIN e.code :
            e.code[j] = IF e.locals[Len(e.locals) - j + 1].is_captured
                        THEN OP_CLOSE_UPVALUE ELSE OP_POP

\* C33: when a scope ends, end_scope removes every local declared in that
\* scope exactly once and emits exactly one instruction per removed local,
\* CloseUpvalue when the local is captured and Pop otherwise; the locals of
\* enclosing scopes are neither removed nor popped.
C33_EndScope ==
    \A i \in DOMAIN comp.scopes : ScopeEndedRight(comp.scopes[i])

\* A block inside a function has ended with a captured and an uncaptured
\* local of its own while the function held locals of its own.
C33_Witness ==
    \E i \in DOMAIN comp.scopes :
        /\ comp.scopes[i].code = <<OP_POP, OP_CLOSE_UPVALUE>>
        /\ Len(comp.scopes[i].kept) = 3
        /\ comp.scopes[i].depth = 1
        /\ ~comp.had_error
(***************************************************************************)
(* C34: is_captured on the local an upvalue comes from.                    *)
(***************************************************************************)
\* The unit that declares the local behind `upvalue` of `unit`, with that
\* local's slot: the enclosing unit for an upvalue that is_local, and the
\* origin of the enclosing unit's upvalue otherwise.
RECURSIVE Origin(_, _, _)
Origin(unit, upvalue, levels) ==
    IF upvalue.is_local
    THEN [unit |-> unit.enclosing.v, slot |-> upvalue.index, levels |-> levels]
    ELSE Origin(unit.enclosing.v, unit.enclosing.v.upvalues[upvalue.index + 1], levels + 1)

\* The origins of the upvalues of the functions compiled so far, each with
\* the number of scopes that had ended when the function was compiled.
Origins ==
    UNION {{[origin |-> Origin(comp.closures[i].unit, comp.closures[i].unit.upvalues[j], 1),
             scopes |-> comp.closures[i].scopes] :
                j \in DOMAIN comp.closures[i].unit.upvalues} :
           i \in DOMAIN comp.closures}

\* The first end of a scope, after `scopes` ends, that takes slot `slot`
\* from function `name`; 0 when there is none yet.
ScopeEndOf(name, slot, scopes) ==
    LET ends == {i \in DOMAIN comp.scopes :
                    /\ i > scopes
                    /\ comp.scopes[i].function = name
                    /\ Len(comp.scopes[i].kept) <= slot
                    /\ Len(comp.scopes[i].locals) > slot}
    IN IF ends = {} THEN 0 ELSE CHOOSE i \in ends : \A j \in ends : i <= j

\* C34: whenever resolve_upvalue resolves a name to an upvalue, the local
\* that declares it in the enclosing unit where it is found has is_captured
\* set when the referencing function is finished, and still has it when its
\* scope ends, however many functions lie between the two.
C34_OriginIsCaptured ==
    \A o \in Origins :
        LET local == o.origin.unit.locals[o.origin.slot + 1]
            end == ScopeEndOf(o.origin.unit.function.name, o.origin.slot, o.scopes)
        IN /\ local.is_captured
           /\ end # 0 =>
                /\ comp.scopes[end].locals[o.origin.slot + 1].name = local.name
                /\ comp.scopes[end].locals[o.origin.slot + 1].is_captured

\* A function nested two levels below a block has captured a local of the
\* block, and the block has ended.
C34_Witness ==
    \E o \in Origins :
        /\ o.origin.levels = 2
        /\ o.origin.unit.locals[o.origin.slot + 1].name.lexeme = "a"
        /\ ScopeEndOf(o.origin.unit.function.name, o.origin.slot, o.scopes) # 0
        /\ ~comp.had_error
(***************************************************************************)
(* C35: where Loop and the exit jump of a loop land.                       *)
(***************************************************************************)
\* The loops the compiler noted for the running function whose Loop
\* instruction (`field` = "at") or exit JumpIfFalse (`field` = "exit") is the
\* instruction about to run.
LoopsHere(field) ==
    {l \in {comp.loops[i] : i \in DOMAIN comp.loops} :
        /\ l.function = frame_function(Ctx, current_frame(Ctx)).name
        /\ l[field] = current_frame(Ctx).ip}

\* Loop sets ip to the first byte of the condition, or of the increment
\* clause for the Loop that ends the body of a for loop with one; an exit
\* JumpIfFalse that finds a falsey value lands behind the Loop, on a Pop.
LoopJumps ==
    /\ Running(OP_LOOP) =>
            /\ LoopsHere("at") # {}
            /\ \A l \in LoopsHere("at") :
                    /\ pc' = "run"
                    /\ frames'[Len(frames')].ip = l.begin
    /\ Running(OP_JUMP_IF_FALSE) =>
            \A l \in LoopsHere("exit") :
                is_falsey(stack[Len(stack)]) =>
                    /\ frames'[Len(frames')].ip = l.at + 3
                    /\ current_chunk(Ctx).code[l.at + 3 + 1] = OP_POP

\* C35: for every while and for statement, wherever it starts in the chunk,
\* compilation succeeds (the compiler does not panic), executing the emitted
\* Loop sets ip to the first byte of the loop's condition (or of the
\* increment clause when the for loop has one), and the exit JumpIfFalse
\* lands on the Pop that follows the Loop.
C35_LoopCompilesAndJumps ==
    [][(comp.panic = "")' /\ LoopJumps]_vars
(***************************************************************************)
(* C36: short-circuit evaluation of `and` and `or`.                        *)
(***************************************************************************)
\* The value a literal token stands for.
LiteralValue(token) ==
    CASE token.kind = "Nil" -> Nil
      [] token.kind = "False" -> Bool(FALSE)
      [] token.kind = "True" -> Bool(TRUE)
      [] token.kind = "Number" -> Number(parse_f64(token.lexeme))
      [] token.kind = "String" -> Str(string_contents(token.lexeme))

Falsey(value) == value \in {Nil, Bool(FALSE)}

\* What `f(left) op f(right)` is to print when f prints its argument and
\* returns it: the left operand, the right operand when it is evaluated, and
\* the value of the whole expression.
ShortCircuit(left, op, right) ==
    LET skips == IF op = "And" THEN Falsey(left) ELSE ~Falsey(left)
    IN IF skips THEN <<left, left>> ELSE <<left, right, right>>

LogicLines ==
    LET values == ShortCircuit(LiteralValue(source.left), source.op,
                               LiteralValue(source.right))
    IN [i \in DOMAIN values |-> display(heap, values[i])]

\* C36: `a and b` yields a without evaluating b when a is falsey and b
\* otherwise, `a or b` yields a without evaluating b when a is truthy and b
\* otherwise, and the whole expression leaves exactly one value on the
\* stack: the print statement that takes it finds the script's slot 0 and
\* that value.
C36_ShortCircuit ==
    Family = "logic" =>
        /\ pc = "returned" => res = "Ok" /\ out = LogicLines
        /\ (pc = "run" /\ Len(frames) = 1 /\ Fetched.byte = OP_PRINT) =>
                /\ Len(stack) = 2
                /\ out \o <<display(heap, stack[2])>> = LogicLines

\* `f(0) and f("A")` has printed 0, "A" and "A": zero is truthy, the right
\* operand was evaluated and is the value.
C36_Witness ==
    /\ Family = "logic"
    /\ source.left = Num(0)
    /\ source.op = "And"
    /\ source.right = StrLit("A")
    /\ pc = "returned"
    /\ Len(out) = 3
    /\ out[1] = "0"
    /\ out[3] = out[2]
(***************************************************************************)
(* C37: where `this` and `super` are legal.                                *)
(***************************************************************************)
\* The errors about `this` and `super` among the lines on stderr.
ContextErrors ==
    SelectSeq(err, LAMBDA line :
        line \in {ThisOutsideClass, SuperOutsideClass, SuperWithoutSuperclass})

\* C37: `this` outside any class declaration, and `super` outside a class
\* or inside a class without a superclass, are compile errors; the innermost
\* enclosing class declaration decides, and the context of the outer class
\* is back when a nested class declaration has ended.  For each program the
\* compiler reports exactly the errors its class declarations call for.
C37_ClassContext ==
    (Family = "context" /\ CompileFinished) => ContextErrors = source.errors
(***************************************************************************)
(* C38: the globals across the interpret calls of one VM.                  *)
(***************************************************************************)
\* C38: the globals table persists across interpret calls on the same VM
\* and is never rolled back.  Only instructions change it, so what a call
\* left is what the next call finds, `clock` included; an instruction that
\* ends in a runtime error leaves it as it found it; and run() starts each
\* call with one frame at slot 0, the script's closure as the only value and
\* no open upvalue.
C38_GlobalsPersist ==
    [][/\ pc # "run" => globals' = globals
       /\ res' = "RuntimeError" => globals' = globals
       /\ "clock" \in DOMAIN globals'
       /\ DOMAIN globals \subseteq DOMAIN globals'
       /\ pc = "compiled" =>
            /\ Len(frames') = 1
            /\ frames'[1].slots_base = 0
            /\ frames'[1].ip = 0
            /\ Len(stack') = 1
            /\ open_upvalues' = <<>>]_vars

\* A second line has printed the value that the first line assigned before
\* it failed with a runtime error.
C38_Witness ==
    /\ Family = "repl"
    /\ source.name = "assign_then_fail"
    /\ lines_read = 2
    /\ pc = "returned"
    /\ res = "Ok"
    /\ out = <<"LoxError { kind: RuntimeError, message: \"Undefined variable 'nope'.\" }",
               "2">>

\* ---------------------------------------------------------------------------
\* C39: compile() comes to an end on every token sequence, with or without
\* syntax errors: every pass through the loop of compile(), through the loop
\* of block() and through the method loop of class_declaration() leaves
\* `current` at least one token further than it found it, none of them is
\* entered at Eof, and synchronize() never goes back and stops at Eof, after a
\* semicolon or before a token that starts a statement.
Iterations == comp.iterations

ConsumingLoops == {"compile", "block", "class_declaration"}

TokensRemaining == Len(comp.scanner.tokens) + 1 - token_index(comp)

C39_LoopsConsume ==
    /\ \A i \in Iterations :
        /\ i.to <= Len(comp.scanner.tokens) + 1
        /\ i.loop \in ConsumingLoops => i.from < i.to /\ i.entered # "Eof"
        /\ i.loop = "block" => i.entered # "RightBrace" /\ i.depth > 0
        /\ i.loop = "class_declaration" => i.entered # "RightBrace"
        /\ i.loop = "synchronize" => i.from <= i.to
    /\ \A m \in Events("synchronized") :
        \/ Log[m].current = "Eof"
        \/ Log[m].previous = "Semicolon"
        \/ Log[m].current \in StopKinds
    /\ TokensRemaining >= 0
    /\ pc \in {"compiled", "run", "returned", "exited"} /\ res # "panic"
         /\ source.kind = "tokens" /\ lines_read = 0
       => TokensRemaining = 0

\* A class body of two tokens that are no method: both passes through the
\* method loop took a token, the second one through the block of the body, and
\* synchronize() ran to Eof.
C39_Witness ==
    /\ Family = "recovery"
    /\ pc = "returned"
    /\ res = "CompileError"
    /\ source.opening = "class"
    /\ \E i, j, l \in Iterations :
        /\ i.loop = "class_declaration" /\ i.entered = "Semicolon"
        /\ j.loop = "block" /\ j.from >= i.from /\ j.to <= i.to
        /\ l.loop = "compile" /\ l.from = 1 /\ l.to = Len(source.tokens) + 1
    /\ \E i \in Iterations : i.loop = "synchronize" /\ i.from < i.to
                             /\ i.to = Len(source.tokens) + 1

============================================================================
